---- MODULE Spec2Model ----
(***************************************************************************)
(* Walrus Events: the access-gated ticketing ledger.                       *)
(*                                                                         *)
(* Three Sui Move modules are modelled:                                    *)
(*   walrus_events::seal_access   (src/unnamed/part_006)                   *)
(*   walrus_events::ticket_system (src/contracts/walrus_events/sources/    *)
(*                                 ticket_system.move)                     *)
(*   walrus_events::event_anchor  (src/unnamed/part_005)                   *)
(*                                                                         *)
(* Every public function is an operator that maps the objects and         *)
(* arguments of a call to its outcome: the status ("ok" or the abort       *)
(* code), the new value of the objects, the events emitted and the value   *)
(* returned.  A step of the model is one executed transaction calling one  *)
(* public function.  A Move abort reverts every effect of the transaction, *)
(* so an aborted call leaves the state as it was; events are part of the   *)
(* effects of a transaction and of no object.                              *)
(*                                                                         *)
(* Object model: an owned object can be passed to a function only by its   *)
(* owner, a shared object by anyone.  A transaction that names an object   *)
(* its sender may not use never executes any code of the modules, so it is *)
(* no step of the model (the guards CanUse).  transfer::transfer is        *)
(* modelled by its effect on the owner; transfer::share_object aborts on   *)
(* an object that was not created in the transaction, so list_for_sale,    *)
(* which shares a ticket minted earlier, never returns: no TicketListing   *)
(* ever exists and buy_ticket, which takes one, is never called.  An       *)
(* object with key and store can be transferred or frozen by its owner.    *)
(***************************************************************************)
EXTENDS Integers, Sequences, FiniteSets, TLC

\* ------------------------------------------------------------------ bounds

\* tx_context::epoch ranges over 0..MaxEpoch.
MaxEpoch == 1
\* access_level arguments of add_participant range over 0..MaxLevel (a u8).
MaxLevel == 3
\* payment_amount and price arguments range over 0..MaxPrice (a u64).
MaxPrice == 1

\* The records of the event stream that are followed.
MaxStream == 4

\* ------------------------------------------------------------- input sets

Principals == {"alice", "bob", "carol"}

\* vector<u8> arguments that become an event id: the empty vector, "E" and
\* 0xFF, which is no UTF-8.
ByteVectors == {<<>>, <<69>>, <<255>>}

\* metadata_uri arguments: a URI and bytes that are no UTF-8.
UriVectors == {<<117>>, <<255>>}

\* zk_proof arguments: none, two proofs that are UTF-8 and one that is not.
ProofVectors == {<<>>, <<69>>, <<70>>, <<255>>}

\* ticket_number arguments (a u64).
TicketNumbers == {7}

Epochs == 0..MaxEpoch
Levels == 0..MaxLevel
Prices == 0..MaxPrice

\* Object ids.  Every function of seal_access works on one EventAccess and
\* none reads another, so one EventAccess is modelled.  Every function of
\* ticket_system that can complete works on one EventTicket and reads no
\* other, so one ticket is modelled, through every stage of its life.
PolicyIds == {1}
TicketIds == {1}
ListingIds == {1}

\* SUI every principal owns in the initial state.
InitialBalances == [a \in Principals |-> 1]

\* The object ids of the EventAnchor objects.
AnchorIds == {1, 2}

\* The length event_anchor requires of an event hash.
HashLength == 64

\* Arguments event_hash: two hashes of 64 hex characters, a hash one
\* character short, one too long, and 64 bytes that are no UTF-8.
HashVectors ==
  {[i \in 1..HashLength |-> 97], [i \in 1..HashLength |-> 98],
   [i \in 1..(HashLength - 1) |-> 97], [i \in 1..(HashLength + 1) |-> 97],
   [i \in 1..HashLength |-> 255]}

\* Arguments blob_id: empty, "B" and a byte that is no UTF-8.
BlobVectors == {<<>>, <<66>>, <<255>>}

\* A slot of an object store that holds no object (yet).
NoObject == [kind |-> "none"]
\* A slot whose object was deleted (object::delete): ids are never reused.
Deleted == [kind |-> "deleted"]

\* ------------------------------------------------------------ std::string

\* UTF-8 validity of the sequence b from position i on (RFC 3629), as
\* std::string::internal_check_utf8 decides it.
RECURSIVE check_utf8_from(_, _)
check_utf8_from(b, i) ==
  LET n == Len(b)
      Cont(k) == k <= n /\ b[k] >= 128 /\ b[k] <= 191
  IN IF i > n THEN TRUE
     ELSE IF b[i] <= 127 THEN check_utf8_from(b, i + 1)
     ELSE IF b[i] >= 194 /\ b[i] <= 223
       THEN Cont(i + 1) /\ check_utf8_from(b, i + 2)
     ELSE IF b[i] >= 224 /\ b[i] <= 239
       THEN /\ Cont(i + 1) /\ Cont(i + 2)
            /\ (b[i] = 224 => b[i + 1] >= 160)
            /\ (b[i] = 237 => b[i + 1] <= 159)
            /\ check_utf8_from(b, i + 3)
     ELSE IF b[i] >= 240 /\ b[i] <= 244
       THEN /\ Cont(i + 1) /\ Cont(i + 2) /\ Cont(i + 3)
            /\ (b[i] = 240 => b[i + 1] >= 144)
            /\ (b[i] = 244 => b[i + 1] <= 143)
            /\ check_utf8_from(b, i + 4)
     ELSE FALSE

\* string::utf8(bytes) aborts unless the bytes are UTF-8; the String it
\* returns wraps the same bytes.
check_utf8(b) == check_utf8_from(b, 1)

\* -------------------------------------------------------------- variables

VARIABLES
  epoch,     \* tx_context::epoch
  access,    \* PolicyIds -> EventAccess (shared objects)
  tickets,   \* TicketIds -> EventTicket with its owner
  listings,  \* ListingIds -> TicketListing (shared objects)
  proofs,    \* the CheckInProof objects, in order of creation
  balance,   \* Principals -> SUI owned
  anchors,   \* AnchorIds -> EventAnchor with its owner
  stream     \* the records of the event stream, when it is followed

vars == <<epoch, access, tickets, listings, proofs, balance, anchors, stream>>

\* ----------------------------------------------------------- call outcomes

\* A call that returned: the new value of the object it worked on, the
\* events it emitted and what it returned.
Ok(obj, events, ret) ==
  [status |-> "ok", obj |-> obj, events |-> events, ret |-> ret]

\* A call that aborted with `code`: every effect is reverted.
Abort(obj, code) ==
  [status |-> code, obj |-> obj, events |-> <<>>, ret |-> "abort"]

\* --------------------------------------------------------------- sui::event

\* The stream when nobody follows it.
NoStream == [followed |-> FALSE, records |-> <<>>]

\* The stream followed from the publication of the package on: init of
\* ticket_system runs in the publish transaction, display::new_with_fields
\* emits DisplayCreated<EventTicket> and display::update_version emits
\* VersionUpdated<EventTicket>, with version 1.
NewStream ==
  [followed |-> TRUE,
   records |-> <<[type |-> "DisplayCreated"],
                 [type |-> "VersionUpdated", version |-> 1]>>]

\* event::emit of the events of a transaction, in their order: they are
\* appended to the stream; the records there stay.
event_emit(log, events) ==
  IF log.followed THEN [log EXCEPT !.records = @ \o events] ELSE log

\* --------------------------------------------------------------- sui::table

table_contains(t, k) == k \in DOMAIN t

\* table::add aborts when the key is present, table::remove when it is
\* absent (dynamic_field); `table` is the table after the call.
table_add(t, k, v) ==
  IF k \in DOMAIN t
    THEN [status |-> "EFieldAlreadyExists", table |-> t]
    ELSE [status |-> "ok",
          table |-> [x \in (DOMAIN t) \cup {k} |-> IF x = k THEN v ELSE t[x]]]

table_remove(t, k) ==
  IF k \notin DOMAIN t
    THEN [status |-> "EFieldDoesNotExist", table |-> t]
    ELSE [status |-> "ok", table |-> [x \in (DOMAIN t) \ {k} |-> t[x]]]

\* The outcome of a function that ends with the table operation r on the
\* participants of a: the abort of the operation is the abort of the call.
WithParticipants(a, r, events) ==
  IF r.status # "ok" THEN Abort(a, r.status)
  ELSE Ok([a EXCEPT !.participants = r.table], events, "unit")

\* ------------------------------------------------- walrus_events::seal_access

\* create_event_access that does not add the organizer as a participant.
create_event_access_empty(event_id, is_public, requires_payment, payment_amount, sender, timestamp) ==
  IF ~check_utf8(event_id) THEN Abort(NoObject, "EInvalidUTF8")
  ELSE
    Ok([kind |-> "EventAccess",
        event_id |-> event_id,
        organizer |-> sender,
        is_public |-> is_public,
        requires_payment |-> requires_payment,
        payment_amount |-> payment_amount,
        is_active |-> TRUE,
        participants |-> <<>>,
        created_at |-> timestamp],
       <<>>, "unit")

create_event_access(event_id, is_public, requires_payment, payment_amount, sender, timestamp) ==
  IF ~check_utf8(event_id) THEN Abort(NoObject, "EInvalidUTF8")
  ELSE
    LET organizer_info ==
          [joined_at |-> timestamp, has_paid |-> TRUE, access_level |-> 2]
        new ==
          [kind |-> "EventAccess",
           event_id |-> event_id,
           organizer |-> sender,
           is_public |-> is_public,
           requires_payment |-> requires_payment,
           payment_amount |-> payment_amount,
           is_active |-> TRUE,
           participants |-> table_add(<<>>, sender, organizer_info).table,
           created_at |-> timestamp]
    IN Ok(new, <<>>, "unit")

\* join_event without the check that the sender is no participant yet.
join_event_rejoin(a, sender, timestamp) ==
  IF ~a.is_active THEN Abort(a, "EEventNotActive")
  ELSE WithParticipants(
         a,
         table_add(a.participants, sender,
                   [joined_at |-> timestamp, has_paid |-> ~a.requires_payment,
                    access_level |-> 0]),
         <<[type |-> "ParticipantJoined", event_id |-> a.event_id,
            participant |-> sender, timestamp |-> timestamp]>>)

\* join_event without the check that the event is active.
join_event_inactive(a, sender, timestamp) ==
  IF table_contains(a.participants, sender)
    THEN Abort(a, "EAlreadyParticipant")
  ELSE WithParticipants(
         a,
         table_add(a.participants, sender,
                   [joined_at |-> timestamp, has_paid |-> ~a.requires_payment,
                    access_level |-> 0]),
         <<[type |-> "ParticipantJoined", event_id |-> a.event_id,
            participant |-> sender, timestamp |-> timestamp]>>)

\* join_event that ranks the participants: access_level is the number of
\* participants who joined before, the organizer not counted.
join_event_ranked(a, sender, timestamp) ==
  IF ~a.is_active THEN Abort(a, "EEventNotActive")
  ELSE IF table_contains(a.participants, sender)
    THEN Abort(a, "EAlreadyParticipant")
  ELSE WithParticipants(
         a,
         table_add(a.participants, sender,
                   [joined_at |-> timestamp, has_paid |-> ~a.requires_payment,
                    access_level |-> Cardinality(DOMAIN a.participants) - 1]),
         <<[type |-> "ParticipantJoined", event_id |-> a.event_id,
            participant |-> sender, timestamp |-> timestamp]>>)

join_event(a, sender, timestamp) ==
  IF ~a.is_active THEN Abort(a, "EEventNotActive")
  ELSE IF table_contains(a.participants, sender)
    THEN Abort(a, "EAlreadyParticipant")
  ELSE
    LET participant_info ==
          [joined_at |-> timestamp, has_paid |-> ~a.requires_payment,
           access_level |-> 0]
    IN WithParticipants(
         a, table_add(a.participants, sender, participant_info),
         <<[type |-> "ParticipantJoined", event_id |-> a.event_id,
            participant |-> sender, timestamp |-> timestamp]>>)

\* leave_event without the check that the sender is not the organizer.
leave_event_anyone(a, sender, timestamp) ==
  IF ~table_contains(a.participants, sender) THEN Abort(a, "ENotParticipant")
  ELSE WithParticipants(
         a, table_remove(a.participants, sender),
         <<[type |-> "ParticipantLeft", event_id |-> a.event_id,
            participant |-> sender, timestamp |-> timestamp]>>)

\* leave_event that emits ParticipantLeft but keeps the record.
leave_event_keep(a, sender, timestamp) ==
  IF ~table_contains(a.participants, sender) THEN Abort(a, "ENotParticipant")
  ELSE IF sender = a.organizer THEN Abort(a, "ENotOrganizer")
  ELSE Ok(a,
          <<[type |-> "ParticipantLeft", event_id |-> a.event_id,
             participant |-> sender, timestamp |-> timestamp]>>,
          "unit")

leave_event(a, sender, timestamp) ==
  IF ~table_contains(a.participants, sender) THEN Abort(a, "ENotParticipant")
  ELSE IF sender = a.organizer THEN Abort(a, "ENotOrganizer")
  ELSE WithParticipants(
         a, table_remove(a.participants, sender),
         <<[type |-> "ParticipantLeft", event_id |-> a.event_id,
            participant |-> sender, timestamp |-> timestamp]>>)

\* The event emitted when access is granted.
AccessGranted(a, user, timestamp) ==
  [type |-> "AccessGranted", event_id |-> a.event_id, user |-> user,
   timestamp |-> timestamp]

\* seal_approve without the payment check.
seal_approve_unpaid(a, event_id_bytes, user, timestamp) ==
  IF ~check_utf8(event_id_bytes) THEN Abort(a, "EInvalidUTF8")
  ELSE IF a.event_id # event_id_bytes THEN Ok(a, <<>>, "false")
  ELSE IF ~a.is_active THEN Ok(a, <<>>, "false")
  ELSE IF ~table_contains(a.participants, user) THEN Ok(a, <<>>, "false")
  ELSE Ok(a, <<AccessGranted(a, user, timestamp)>>, "true")

\* seal_approve without the check that the event is active.
seal_approve_inactive(a, event_id_bytes, user, timestamp) ==
  IF ~check_utf8(event_id_bytes) THEN Abort(a, "EInvalidUTF8")
  ELSE IF a.event_id # event_id_bytes THEN Ok(a, <<>>, "false")
  ELSE IF ~table_contains(a.participants, user) THEN Ok(a, <<>>, "false")
  ELSE IF a.requires_payment /\ ~a.participants[user].has_paid
    THEN Ok(a, <<>>, "false")
  ELSE Ok(a, <<AccessGranted(a, user, timestamp)>>, "true")

\* seal_approve that emits AccessGranted before the payment check.
seal_approve_emit_denied(a, event_id_bytes, user, timestamp) ==
  IF ~check_utf8(event_id_bytes) THEN Abort(a, "EInvalidUTF8")
  ELSE IF a.event_id # event_id_bytes THEN Ok(a, <<>>, "false")
  ELSE IF ~a.is_active THEN Ok(a, <<>>, "false")
  ELSE IF ~table_contains(a.participants, user) THEN Ok(a, <<>>, "false")
  ELSE IF a.requires_payment /\ ~a.participants[user].has_paid
    THEN Ok(a, <<AccessGranted(a, user, timestamp)>>, "false")
  ELSE Ok(a, <<AccessGranted(a, user, timestamp)>>, "true")

\* seal_approve that grants access once: it takes &mut EventAccess and
\* marks the participant unpaid when it has granted.
seal_approve_consume(a, event_id_bytes, user, timestamp) ==
  IF ~check_utf8(event_id_bytes) THEN Abort(a, "EInvalidUTF8")
  ELSE IF a.event_id # event_id_bytes THEN Ok(a, <<>>, "false")
  ELSE IF ~a.is_active THEN Ok(a, <<>>, "false")
  ELSE IF ~table_contains(a.participants, user) THEN Ok(a, <<>>, "false")
  ELSE IF a.requires_payment /\ ~a.participants[user].has_paid
    THEN Ok(a, <<>>, "false")
  ELSE Ok([a EXCEPT !.participants[user].has_paid = FALSE],
          <<AccessGranted(a, user, timestamp)>>, "true")

seal_approve(a, event_id_bytes, user, timestamp) ==
  IF ~check_utf8(event_id_bytes) THEN Abort(a, "EInvalidUTF8")
  ELSE IF a.event_id # event_id_bytes THEN Ok(a, <<>>, "false")
  ELSE IF ~a.is_active THEN Ok(a, <<>>, "false")
  ELSE IF ~table_contains(a.participants, user) THEN Ok(a, <<>>, "false")
  ELSE IF a.requires_payment /\ ~a.participants[user].has_paid
    THEN Ok(a, <<>>, "false")
  ELSE Ok(a, <<AccessGranted(a, user, timestamp)>>, "true")

\* seal_approve_simple that denies the participants of an inactive event.
seal_approve_simple_active(a, user) ==
  Ok(a, <<>>,
     IF a.is_active /\ table_contains(a.participants, user)
       THEN "true" ELSE "false")

seal_approve_simple(a, user) ==
  Ok(a, <<>>, IF table_contains(a.participants, user) THEN "true" ELSE "false")

\* deactivate_event that settles the event: every participant has paid.
deactivate_event_settle(a, sender) ==
  IF a.organizer # sender THEN Abort(a, "ENotOrganizer")
  ELSE Ok([a EXCEPT !.is_active = FALSE,
                    !.participants =
                      [x \in DOMAIN @ |-> [@[x] EXCEPT !.has_paid = TRUE]]],
          <<>>, "unit")

\* deactivate_event that also drops every participant but the organizer.
deactivate_event_clear(a, sender) ==
  IF a.organizer # sender THEN Abort(a, "ENotOrganizer")
  ELSE Ok([a EXCEPT !.is_active = FALSE,
                    !.participants = [x \in {a.organizer} |-> @[x]]],
          <<>>, "unit")

deactivate_event(a, sender) ==
  IF a.organizer # sender THEN Abort(a, "ENotOrganizer")
  ELSE Ok([a EXCEPT !.is_active = FALSE], <<>>, "unit")

\* reactivate_event that reopens the event free of charge.
reactivate_event_free(a, sender) ==
  IF a.organizer # sender THEN Abort(a, "ENotOrganizer")
  ELSE Ok([a EXCEPT !.is_active = TRUE, !.requires_payment = FALSE],
          <<>>, "unit")

\* reactivate_event without the check that the sender is the organizer.
reactivate_event_anyone(a, sender) ==
  Ok([a EXCEPT !.is_active = TRUE], <<>>, "unit")

reactivate_event(a, sender) ==
  IF a.organizer # sender THEN Abort(a, "ENotOrganizer")
  ELSE Ok([a EXCEPT !.is_active = TRUE], <<>>, "unit")

\* add_participant that leaves payment to the participant, as join_event does.
add_participant_unpaid(a, participant, access_level, sender, timestamp) ==
  IF a.organizer # sender THEN Abort(a, "ENotOrganizer")
  ELSE IF table_contains(a.participants, participant)
    THEN Abort(a, "EAlreadyParticipant")
  ELSE WithParticipants(
         a,
         table_add(a.participants, participant,
                   [joined_at |-> timestamp, has_paid |-> ~a.requires_payment,
                    access_level |-> access_level]),
         <<>>)

add_participant(a, participant, access_level, sender, timestamp) ==
  IF a.organizer # sender THEN Abort(a, "ENotOrganizer")
  ELSE IF table_contains(a.participants, participant)
    THEN Abort(a, "EAlreadyParticipant")
  ELSE
    LET participant_info ==
          [joined_at |-> timestamp, has_paid |-> TRUE,
           access_level |-> access_level]
    IN WithParticipants(
         a, table_add(a.participants, participant, participant_info), <<>>)

\* The view function is_participant.
is_participant(a, user) == table_contains(a.participants, user)

\* The EventAccess objects that exist.
LivePolicies == {p \in PolicyIds : access[p] # NoObject}

\* object::new: the next unused id of a store, 0 when the bound is reached.
FreshId(store, ids) ==
  IF \E i \in ids : store[i] = NoObject
    THEN CHOOSE i \in ids : store[i] = NoObject
                            /\ \A j \in ids : j < i => store[j] # NoObject
    ELSE 0

\* The frame of the seal_access entry functions: they touch one EventAccess.
AccessFrame == UNCHANGED <<epoch, tickets, listings, proofs, balance, anchors>>

CreateEventAccess ==
  /\ FreshId(access, PolicyIds) # 0
  /\ \E sender \in Principals, event_id \in ByteVectors,
        is_public \in BOOLEAN, requires_payment \in BOOLEAN,
        payment_amount \in Prices :
       LET p == FreshId(access, PolicyIds)
           r == create_event_access(event_id, is_public, requires_payment,
                                    payment_amount, sender, epoch)
       IN /\ access' = [access EXCEPT ![p] = r.obj]
          /\ stream' = event_emit(stream, r.events)
  /\ AccessFrame

JoinEvent ==
  \E p \in LivePolicies, sender \in Principals :
    LET r == join_event(access[p], sender, epoch)
    IN /\ access' = [access EXCEPT ![p] = r.obj]
       /\ stream' = event_emit(stream, r.events)
       /\ AccessFrame

LeaveEvent ==
  \E p \in LivePolicies, sender \in Principals :
    LET r == leave_event(access[p], sender, epoch)
    IN /\ access' = [access EXCEPT ![p] = r.obj]
       /\ stream' = event_emit(stream, r.events)
       /\ AccessFrame

SealApprove ==
  \E p \in LivePolicies, event_id_bytes \in ByteVectors, user \in Principals :
    LET r == seal_approve(access[p], event_id_bytes, user, epoch)
    IN /\ access' = [access EXCEPT ![p] = r.obj]
       /\ stream' = event_emit(stream, r.events)
       /\ AccessFrame

SealApproveSimple ==
  \E p \in LivePolicies, user \in Principals :
    LET r == seal_approve_simple(access[p], user)
    IN /\ access' = [access EXCEPT ![p] = r.obj]
       /\ stream' = event_emit(stream, r.events)
       /\ AccessFrame

DeactivateEvent ==
  \E p \in LivePolicies, sender \in Principals :
    LET r == deactivate_event(access[p], sender)
    IN /\ access' = [access EXCEPT ![p] = r.obj]
       /\ stream' = event_emit(stream, r.events)
       /\ AccessFrame

ReactivateEvent ==
  \E p \in LivePolicies, sender \in Principals :
    LET r == reactivate_event(access[p], sender)
    IN /\ access' = [access EXCEPT ![p] = r.obj]
       /\ stream' = event_emit(stream, r.events)
       /\ AccessFrame

AddParticipant ==
  \E p \in LivePolicies, sender \in Principals,
     participant \in Principals, access_level \in Levels :
    LET r == add_participant(access[p], participant, access_level, sender, epoch)
    IN /\ access' = [access EXCEPT ![p] = r.obj]
       /\ stream' = event_emit(stream, r.events)
       /\ AccessFrame

\* ----------------------------------------------- walrus_events::ticket_system

\* The owner of an object that transfer::share_object has shared.
Shared == "shared"

\* The owner of an object that transfer::public_freeze_object has frozen:
\* nobody can pass it by value or by mutable reference.
Frozen == "immutable"

\* transfer::share_object: aborts unless the object was created in this
\* transaction (is_new) or is shared already.
share_object(obj, is_new) ==
  IF is_new \/ obj.owner = Shared
    THEN [status |-> "ok", obj |-> [obj EXCEPT !.owner = Shared]]
    ELSE [status |-> "ESharedNonNewObject", obj |-> obj]

\* The sender of a transaction may pass an object it owns or a shared one.
CanUse(sender, obj) == obj.owner = sender \/ obj.owner = Shared

\* A transfer that takes the coin from its owner and credits nobody.
public_transfer_coin_lost(bal, from, to, amount) ==
  [bal EXCEPT ![from] = @ - amount]

\* transfer::public_transfer of a Coin<SUI> of value `amount` from its owner.
public_transfer_coin(bal, from, to, amount) ==
  LET debited == [bal EXCEPT ![from] = @ - amount]
  IN [debited EXCEPT ![to] = @ + amount]

\* The EventTicket both mint functions build, transferred to the sender.
NewTicket(event_id, ticket_number, is_soulbound, metadata_uri, sender, timestamp) ==
  [kind |-> "EventTicket",
   event_id |-> event_id,
   ticket_number |-> ticket_number,
   attendee |-> sender,
   is_soulbound |-> is_soulbound,
   checked_in |-> FALSE,
   minted_at |-> timestamp,
   metadata_uri |-> metadata_uri,
   zk_proof_hash |-> <<>>,
   owner |-> sender]

TicketMinted(ticket) ==
  [type |-> "TicketMinted", event_id |-> ticket.event_id,
   ticket_number |-> ticket.ticket_number, attendee |-> ticket.attendee,
   is_soulbound |-> ticket.is_soulbound]

mint_ticket(event_id, ticket_number, is_soulbound, metadata_uri, sender, timestamp) ==
  IF ~check_utf8(event_id) \/ ~check_utf8(metadata_uri)
    THEN Abort(NoObject, "EInvalidUTF8")
  ELSE
    LET ticket == NewTicket(event_id, ticket_number, is_soulbound,
                            metadata_uri, sender, timestamp)
    IN Ok(ticket, <<TicketMinted(ticket)>>, "unit")

\* buy_new_ticket that returns instead of aborting when the payment is below
\* the price: the coin is transferred, no ticket is minted.
buy_new_ticket_keep_payment(event_id, ticket_number, is_soulbound, metadata_uri, payment, price, organizer, sender, timestamp) ==
  IF ~check_utf8(event_id) \/ ~check_utf8(metadata_uri)
    THEN Abort(NoObject, "EInvalidUTF8")
  ELSE IF ~(payment >= price) THEN Ok(NoObject, <<>>, "unit")
  ELSE
    LET ticket == NewTicket(event_id, ticket_number, is_soulbound,
                            metadata_uri, sender, timestamp)
    IN Ok(ticket, <<TicketMinted(ticket)>>, "unit")

\* `payment` is the value of the Coin<SUI> passed; on success the whole coin
\* goes to `organizer` (field coin_to of the outcome).
buy_new_ticket(event_id, ticket_number, is_soulbound, metadata_uri, payment, price, organizer, sender, timestamp) ==
  IF ~(payment >= price) THEN Abort(NoObject, "EInsufficientPayment")
  ELSE IF ~check_utf8(event_id) \/ ~check_utf8(metadata_uri)
    THEN Abort(NoObject, "EInvalidUTF8")
  ELSE
    LET ticket == NewTicket(event_id, ticket_number, is_soulbound,
                            metadata_uri, sender, timestamp)
    IN Ok(ticket, <<TicketMinted(ticket)>>, "unit")

\* verify_zk_proof that takes the check-in back.
verify_zk_proof_reset(ticket, zk_proof) ==
  IF ~(Len(zk_proof) > 0) THEN Abort(ticket, "EInvalidZKProof")
  ELSE IF ~check_utf8(zk_proof) THEN Abort(ticket, "EInvalidUTF8")
  ELSE Ok([ticket EXCEPT !.zk_proof_hash = zk_proof, !.checked_in = FALSE],
          <<>>, "unit")

\* verify_zk_proof without the check that the proof is not empty.
verify_zk_proof_any(ticket, zk_proof) ==
  IF ~check_utf8(zk_proof) THEN Abort(ticket, "EInvalidUTF8")
  ELSE Ok([ticket EXCEPT !.zk_proof_hash = zk_proof], <<>>, "unit")

verify_zk_proof(ticket, zk_proof) ==
  IF ~(Len(zk_proof) > 0) THEN Abort(ticket, "EInvalidZKProof")
  ELSE IF ~check_utf8(zk_proof) THEN Abort(ticket, "EInvalidUTF8")
  ELSE Ok([ticket EXCEPT !.zk_proof_hash = zk_proof], <<>>, "unit")

\* The outcome carries the ticket; the CheckInProof created is NewProof.
NewProof(ticket, timestamp) ==
  [kind |-> "CheckInProof", event_id |-> ticket.event_id,
   attendee |-> ticket.attendee, checked_in_at |-> timestamp,
   owner |-> ticket.attendee]

\* check_in that emits no AttendeeCheckedIn.
check_in_silent(ticket, sender, timestamp) ==
  IF ticket.checked_in THEN Abort(ticket, "EAlreadyCheckedIn")
  ELSE IF ticket.attendee # sender THEN Abort(ticket, "EUnauthorized")
  ELSE Ok([ticket EXCEPT !.checked_in = TRUE], <<>>, "unit")

\* check_in without the check of the sender, which makes the sender the
\* attendee.
check_in_claim(ticket, sender, timestamp) ==
  IF ticket.checked_in THEN Abort(ticket, "EAlreadyCheckedIn")
  ELSE Ok([ticket EXCEPT !.checked_in = TRUE, !.attendee = sender],
          <<[type |-> "AttendeeCheckedIn", event_id |-> ticket.event_id,
             attendee |-> ticket.attendee, timestamp |-> timestamp]>>,
          "unit")

\* check_in without the check that the sender is the attendee.
check_in_anyone(ticket, sender, timestamp) ==
  IF ticket.checked_in THEN Abort(ticket, "EAlreadyCheckedIn")
  ELSE Ok([ticket EXCEPT !.checked_in = TRUE],
          <<[type |-> "AttendeeCheckedIn", event_id |-> ticket.event_id,
             attendee |-> ticket.attendee, timestamp |-> timestamp]>>,
          "unit")

\* check_in without the check that the ticket is not checked in yet.
check_in_again(ticket, sender, timestamp) ==
  IF ticket.attendee # sender THEN Abort(ticket, "EUnauthorized")
  ELSE Ok([ticket EXCEPT !.checked_in = TRUE],
          <<[type |-> "AttendeeCheckedIn", event_id |-> ticket.event_id,
             attendee |-> ticket.attendee, timestamp |-> timestamp]>>,
          "unit")

check_in(ticket, sender, timestamp) ==
  IF ticket.checked_in THEN Abort(ticket, "EAlreadyCheckedIn")
  ELSE IF ticket.attendee # sender THEN Abort(ticket, "EUnauthorized")
  ELSE Ok([ticket EXCEPT !.checked_in = TRUE],
          <<[type |-> "AttendeeCheckedIn", event_id |-> ticket.event_id,
             attendee |-> ticket.attendee, timestamp |-> timestamp]>>,
          "unit")

\* The TicketListing list_for_sale creates for the ticket with id ticket_id.
NewListing(ticket, ticket_id, price) ==
  [kind |-> "TicketListing", ticket_id |-> ticket_id,
   seller |-> ticket.attendee, price |-> price, owner |-> Shared]

\* list_for_sale without the check that the ticket is not soulbound.
list_for_sale_any(ticket, price) ==
  LET shared == share_object(ticket, FALSE)
  IN IF shared.status # "ok" THEN Abort(ticket, shared.status)
     ELSE Ok(shared.obj,
             <<[type |-> "TicketListed", seller |-> ticket.attendee,
                price |-> price]>>,
             "unit")

\* The ticket is an input of the transaction: no function returns an
\* EventTicket, so it was created by an earlier transaction and the
\* share_object of it aborts; the listing, shared before, is reverted.
list_for_sale(ticket, price) ==
  IF ticket.is_soulbound THEN Abort(ticket, "ESoulbound")
  ELSE
    LET shared == share_object(ticket, FALSE)
    IN IF shared.status # "ok" THEN Abort(ticket, shared.status)
       ELSE Ok(shared.obj,
               <<[type |-> "TicketListed", seller |-> ticket.attendee,
                  price |-> price]>>,
               "unit")

\* On success the coin goes to listing.seller and the listing is deleted.
\* A shared ticket taken by value cannot be transferred to an address: the
\* transaction fails.  No TicketListing exists, so no transaction calls it.
buy_ticket(listing, ticket, payment, sender) ==
  IF ~(payment >= listing.price) THEN Abort(ticket, "EInsufficientPayment")
  ELSE IF ticket.owner = Shared
    THEN Abort(ticket, "SharedObjectOperationNotAllowed")
  ELSE Ok([ticket EXCEPT !.attendee = sender, !.owner = sender], <<>>, "unit")

\* burn_ticket that refuses a ticket that is checked in.
burn_ticket_unused(ticket) ==
  IF ticket.checked_in THEN Abort(ticket, "EAlreadyCheckedIn")
  ELSE Ok(Deleted, <<>>, "unit")

burn_ticket(ticket) == Ok(Deleted, <<>>, "unit")

\* The objects that exist.
IsLive(obj) == obj # NoObject /\ obj # Deleted
LiveTickets == {t \in TicketIds : IsLive(tickets[t])}
LiveListings == {l \in ListingIds : IsLive(listings[l])}

\* The effects of a transaction on the objects of ticket_system and on the
\* coins: those given when the call returned, none when it aborted.
Effects(r, tk, ls, pr, bal) ==
  IF r.status = "ok"
    THEN [status |-> r.status, events |-> r.events,
          tickets |-> tk, listings |-> ls, proofs |-> pr, balance |-> bal]
    ELSE [status |-> r.status, events |-> <<>>,
          tickets |-> tickets, listings |-> listings, proofs |-> proofs,
          balance |-> balance]

\* A commit where burning a ticket also takes its attendee, unless the
\* organizer, out of the participants of every EventAccess.
Commit_leaving(x) ==
  LET burned == {tickets[t].attendee :
                   t \in {k \in TicketIds : IsLive(tickets[k])
                                            /\ x.tickets[k] = Deleted}}
  IN /\ tickets' = x.tickets
     /\ listings' = x.listings
     /\ proofs' = x.proofs
     /\ balance' = x.balance
     /\ access' = [p \in PolicyIds |->
                     IF access[p] = NoObject THEN access[p]
                     ELSE [access[p] EXCEPT !.participants =
                             [u \in (DOMAIN @) \ (burned \ {access[p].organizer})
                                |-> @[u]]]]
     /\ stream' = event_emit(stream, x.events)
     /\ UNCHANGED <<epoch, anchors>>

\* The state after a transaction with effects x.
Commit(x) ==
  /\ tickets' = x.tickets
  /\ listings' = x.listings
  /\ proofs' = x.proofs
  /\ balance' = x.balance
  /\ stream' = event_emit(stream, x.events)
  /\ UNCHANGED <<epoch, access, anchors>>

\* A transaction calling mint_ticket: the ticket gets a fresh id.
MintTicketTx(sender, event_id, ticket_number, is_soulbound, metadata_uri) ==
  LET r == mint_ticket(event_id, ticket_number, is_soulbound, metadata_uri,
                       sender, epoch)
  IN Effects(r, [tickets EXCEPT ![FreshId(tickets, TicketIds)] = r.obj],
             listings, proofs, balance)

\* A transaction calling buy_new_ticket with a coin of value `payment`.
BuyNewTicketTx(sender, event_id, ticket_number, is_soulbound, metadata_uri, payment, price, organizer) ==
  LET r == buy_new_ticket(event_id, ticket_number, is_soulbound, metadata_uri,
                          payment, price, organizer, sender, epoch)
  IN Effects(r, [tickets EXCEPT ![FreshId(tickets, TicketIds)] = r.obj],
             listings, proofs,
             public_transfer_coin(balance, sender, organizer, payment))

VerifyZkProofTx(t, zk_proof) ==
  LET r == verify_zk_proof(tickets[t], zk_proof)
  IN Effects(r, [tickets EXCEPT ![t] = r.obj], listings, proofs, balance)

CheckInTx(sender, t) ==
  LET r == check_in(tickets[t], sender, epoch)
  IN Effects(r, [tickets EXCEPT ![t] = r.obj], listings,
             Append(proofs, NewProof(tickets[t], epoch)), balance)

ListForSaleTx(t, price) ==
  LET r == list_for_sale(tickets[t], price)
  IN Effects(r, [tickets EXCEPT ![t] = r.obj],
             [listings EXCEPT ![FreshId(listings, ListingIds)] =
                                NewListing(tickets[t], t, price)],
             proofs, balance)

\* A transaction calling buy_ticket with a coin of value `payment`.
BuyTicketTx(sender, l, t, payment) ==
  LET r == buy_ticket(listings[l], tickets[t], payment, sender)
  IN Effects(r, [tickets EXCEPT ![t] = r.obj],
             [listings EXCEPT ![l] = Deleted], proofs,
             public_transfer_coin(balance, sender, listings[l].seller, payment))

BurnTicketTx(t) ==
  LET r == burn_ticket(tickets[t])
  IN Effects(r, [tickets EXCEPT ![t] = r.obj], listings, proofs, balance)

MintTicket ==
  /\ FreshId(tickets, TicketIds) # 0
  /\ \E sender \in Principals, event_id \in ByteVectors,
        ticket_number \in TicketNumbers, is_soulbound \in BOOLEAN,
        metadata_uri \in UriVectors :
       Commit(MintTicketTx(sender, event_id, ticket_number, is_soulbound,
                           metadata_uri))

BuyNewTicket ==
  /\ FreshId(tickets, TicketIds) # 0
  /\ \E sender \in Principals, event_id \in ByteVectors,
        ticket_number \in TicketNumbers, is_soulbound \in BOOLEAN,
        metadata_uri \in UriVectors, price \in Prices, organizer \in Principals :
       \E payment \in 0..balance[sender] :
         Commit(BuyNewTicketTx(sender, event_id, ticket_number, is_soulbound,
                               metadata_uri, payment, price, organizer))

VerifyZkProof ==
  \E sender \in Principals, t \in LiveTickets, zk_proof \in ProofVectors :
    /\ CanUse(sender, tickets[t])
    /\ Commit(VerifyZkProofTx(t, zk_proof))

CheckIn ==
  \E sender \in Principals, t \in LiveTickets :
    /\ CanUse(sender, tickets[t])
    /\ Commit(CheckInTx(sender, t))

\* The ticket is passed by value: its owner sends the transaction.
ListForSale ==
  \E sender \in Principals, t \in LiveTickets, price \in Prices :
    /\ tickets[t].owner = sender
    /\ Commit(ListForSaleTx(t, price))

BurnTicket ==
  \E sender \in Principals, t \in LiveTickets :
    /\ tickets[t].owner = sender
    /\ Commit(BurnTicketTx(t))

\* ----------------------------------------------- walrus_events::event_anchor

\* The frame of the event_anchor functions: they touch one EventAnchor.
AnchorFrame == UNCHANGED <<epoch, access, tickets, listings, proofs, balance>>

\* The anchor is transferred to the sender (field owner).
anchor_event(event_id, event_hash, blob_id, sender, timestamp) ==
  IF ~(Len(event_hash) = HashLength) THEN Abort(NoObject, "EInvalidHash")
  ELSE IF ~(Len(blob_id) > 0) THEN Abort(NoObject, "EInvalidBlobId")
  ELSE IF ~check_utf8(event_id) \/ ~check_utf8(event_hash)
          \/ ~check_utf8(blob_id)
    THEN Abort(NoObject, "EInvalidUTF8")
  ELSE
    LET anchor == [kind |-> "EventAnchor",
                   event_id |-> event_id,
                   organizer |-> sender,
                   event_hash |-> event_hash,
                   blob_id |-> blob_id,
                   created_at |-> timestamp,
                   owner |-> sender]
    IN Ok(anchor,
          <<[type |-> "EventAnchored", event_id |-> anchor.event_id,
             organizer |-> sender, event_hash |-> anchor.event_hash,
             blob_id |-> anchor.blob_id, timestamp |-> timestamp]>>,
          "unit")

\* update_event without the check that the sender is the organizer.
update_event_anyone(anchor, new_event_hash, new_blob_id, sender, timestamp) ==
  IF ~(Len(new_event_hash) = HashLength) THEN Abort(anchor, "EInvalidHash")
  ELSE IF ~(Len(new_blob_id) > 0) THEN Abort(anchor, "EInvalidBlobId")
  ELSE IF ~check_utf8(new_event_hash) \/ ~check_utf8(new_blob_id)
    THEN Abort(anchor, "EInvalidUTF8")
  ELSE Ok([anchor EXCEPT !.event_hash = new_event_hash,
                         !.blob_id = new_blob_id],
          <<[type |-> "EventUpdated", event_id |-> anchor.event_id,
             old_hash |-> anchor.event_hash, new_hash |-> new_event_hash,
             new_blob_id |-> new_blob_id, timestamp |-> timestamp]>>,
          "unit")

update_event(anchor, new_event_hash, new_blob_id, sender, timestamp) ==
  IF ~(anchor.organizer = sender) THEN Abort(anchor, "EUnauthorized")
  ELSE IF ~(Len(new_event_hash) = HashLength) THEN Abort(anchor, "EInvalidHash")
  ELSE IF ~(Len(new_blob_id) > 0) THEN Abort(anchor, "EInvalidBlobId")
  ELSE IF ~check_utf8(new_event_hash) \/ ~check_utf8(new_blob_id)
    THEN Abort(anchor, "EInvalidUTF8")
  ELSE Ok([anchor EXCEPT !.event_hash = new_event_hash,
                         !.blob_id = new_blob_id],
          <<[type |-> "EventUpdated", event_id |-> anchor.event_id,
             old_hash |-> anchor.event_hash, new_hash |-> new_event_hash,
             new_blob_id |-> new_blob_id, timestamp |-> timestamp]>>,
          "unit")

\* The EventAnchor objects that exist.
LiveAnchors == {n \in AnchorIds : anchors[n] # NoObject}

AnchorEvent ==
  /\ FreshId(anchors, AnchorIds) # 0
  /\ \E sender \in Principals, event_id \in ByteVectors,
        event_hash \in HashVectors, blob_id \in BlobVectors :
       LET n == FreshId(anchors, AnchorIds)
           r == anchor_event(event_id, event_hash, blob_id, sender, epoch)
       IN /\ anchors' = [anchors EXCEPT ![n] = r.obj]
          /\ stream' = event_emit(stream, r.events)
  /\ AnchorFrame

UpdateEvent ==
  \E n \in LiveAnchors, sender \in Principals,
     new_event_hash \in HashVectors, new_blob_id \in BlobVectors :
    /\ CanUse(sender, anchors[n])
    /\ LET r == update_event(anchors[n], new_event_hash, new_blob_id,
                             sender, epoch)
       IN /\ anchors' = [anchors EXCEPT ![n] = r.obj]
          /\ stream' = event_emit(stream, r.events)
    /\ AnchorFrame

\* EventAnchor has key and store: its owner may hand it to anyone with
\* transfer::public_transfer; no field of the anchor changes.
TransferAnchor ==
  \E n \in LiveAnchors, sender \in Principals, recipient \in Principals :
    /\ anchors[n].owner = sender
    /\ anchors' = [anchors EXCEPT ![n].owner = recipient]
    /\ AnchorFrame /\ UNCHANGED stream

\* The owner of an anchor may freeze it with transfer::public_freeze_object:
\* nobody can update it or hand it on afterwards.
FreezeAnchor ==
  \E n \in LiveAnchors, sender \in Principals :
    /\ anchors[n].owner = sender
    /\ anchors' = [anchors EXCEPT ![n].owner = Frozen]
    /\ AnchorFrame /\ UNCHANGED stream

\* EventTicket has key and store: its owner may hand it to anyone with
\* transfer::public_transfer; no field of the ticket changes.
TransferTicket ==
  \E t \in LiveTickets, sender \in Principals, recipient \in Principals :
    /\ tickets[t].owner = sender
    /\ tickets' = [tickets EXCEPT ![t].owner = recipient]
    /\ UNCHANGED <<epoch, access, listings, proofs, balance, anchors, stream>>

\* The owner of a ticket may freeze it with transfer::public_freeze_object.
FreezeTicket ==
  \E t \in LiveTickets, sender \in Principals :
    /\ tickets[t].owner = sender
    /\ tickets' = [tickets EXCEPT ![t].owner = Frozen]
    /\ UNCHANGED <<epoch, access, listings, proofs, balance, anchors, stream>>

\* A new epoch begins (tx_context::epoch is read by every function).
AdvanceEpoch ==
  /\ epoch < MaxEpoch
  /\ epoch' = epoch + 1
  /\ UNCHANGED <<access, tickets, listings, proofs, balance, anchors, stream>>

\* ------------------------------------------------------------ specification

\* The state after publishing the package: no object exists.
Init ==
  /\ epoch = 0
  /\ access = [p \in PolicyIds |-> NoObject]
  /\ tickets = [t \in TicketIds |-> NoObject]
  /\ listings = [l \in ListingIds |-> NoObject]
  /\ proofs = <<>>
  /\ balance = InitialBalances
  /\ anchors = [n \in AnchorIds |-> NoObject]
  /\ stream = NoStream

NextAccess ==
  \/ CreateEventAccess
  \/ JoinEvent
  \/ LeaveEvent
  \/ SealApprove
  \/ SealApproveSimple
  \/ DeactivateEvent
  \/ ReactivateEvent
  \/ AddParticipant
  \/ AdvanceEpoch

\* The transactions on the seal_access module.
SpecAccess == Init /\ [][NextAccess]_vars

NextTicket ==
  \/ MintTicket
  \/ BuyNewTicket
  \/ VerifyZkProof
  \/ CheckIn
  \/ ListForSale
  \/ BurnTicket
  \/ TransferTicket
  \/ FreezeTicket
  \/ AdvanceEpoch

\* The transactions on the ticket_system module.
SpecTicket == Init /\ [][NextTicket]_vars

NextAnchor ==
  \/ AnchorEvent
  \/ UpdateEvent
  \/ TransferAnchor
  \/ FreezeAnchor
  \/ AdvanceEpoch

\* The transactions on the event_anchor module.
SpecAnchor == Init /\ [][NextAnchor]_vars

\* The ids of the tickets of the ledger of one event.
LedgerTickets == {t \in TicketIds : \A u \in TicketIds : t <= u}

\* The ledger of one event: the event "E" that alice organizes, paid and
\* public, with one ticket, whose proof is "E" and whose price is paid to
\* alice, and bob the one participant it can get, of basic level.  Both
\* modules work on it; it bounds the specification SpecLedger.
LedgerScope ==
  /\ \A p \in LivePolicies :
       /\ access[p].event_id = <<69>>
       /\ access[p].organizer = "alice"
       /\ access[p].is_public
       /\ access[p].requires_payment
       /\ access[p].payment_amount = MaxPrice
       /\ DOMAIN access[p].participants \subseteq {"alice", "bob"}
       /\ \A u \in DOMAIN access[p].participants \ {"alice"} :
            access[p].participants[u].access_level = 0
  /\ \A t \in TicketIds :
       /\ t \notin LedgerTickets => tickets[t] = NoObject
       /\ IsLive(tickets[t]) =>
            /\ tickets[t].event_id = <<69>>
            /\ tickets[t].zk_proof_hash \in {<<>>, <<69>>}
  /\ \A u \in Principals \ {"alice"} : balance[u] <= InitialBalances[u]

\* A ticket id of the ledger of one event is unused yet.
LedgerRoom == \E t \in LedgerTickets : tickets[t] = NoObject

NextLedger ==
  \/ CreateEventAccess /\ LedgerScope'
  \/ JoinEvent /\ LedgerScope'
  \/ LeaveEvent /\ LedgerScope'
  \/ SealApprove /\ LedgerScope'
  \/ SealApproveSimple /\ LedgerScope'
  \/ DeactivateEvent /\ LedgerScope'
  \/ ReactivateEvent /\ LedgerScope'
  \/ AddParticipant /\ LedgerScope'
  \/ LedgerRoom /\ MintTicket /\ LedgerScope'
  \/ LedgerRoom /\ BuyNewTicket /\ LedgerScope'
  \/ VerifyZkProof /\ LedgerScope'
  \/ CheckIn /\ LedgerScope'
  \/ ListForSale /\ LedgerScope'
  \/ BurnTicket /\ LedgerScope'
  \/ TransferTicket /\ LedgerScope'
  \/ FreezeTicket /\ LedgerScope'
  \/ AdvanceEpoch /\ LedgerScope'

\* The transactions on both modules, on the ledger of one event.
SpecLedger == Init /\ [][NextLedger]_vars

\* The state after publishing the package, the event stream followed.
InitStream ==
  /\ epoch = 0
  /\ access = [p \in PolicyIds |-> NoObject]
  /\ tickets = [t \in TicketIds |-> NoObject]
  /\ listings = [l \in ListingIds |-> NoObject]
  /\ proofs = <<>>
  /\ balance = InitialBalances
  /\ anchors = [n \in AnchorIds |-> NoObject]
  /\ stream = NewStream

\* The part of the ledger whose stream is followed: alice organizes and
\* bob attends, with a ticket that is not soulbound and that alice or bob
\* owns; carol calls, and holds none.  The stream is followed up to
\* MaxStream records: a transaction that would emit the next one is not
\* taken.
StreamScope ==
  /\ Len(stream.records) <= MaxStream
  /\ \A t \in TicketIds :
       IsLive(tickets[t]) =>
         /\ tickets[t].attendee = "bob"
         /\ ~tickets[t].is_soulbound
         /\ tickets[t].owner \in {"alice", "bob", Frozen}

NextStream ==
  \/ CreateEventAccess /\ LedgerScope' /\ StreamScope'
  \/ JoinEvent /\ LedgerScope' /\ StreamScope'
  \/ LeaveEvent /\ LedgerScope' /\ StreamScope'
  \/ SealApprove /\ LedgerScope' /\ StreamScope'
  \/ SealApproveSimple /\ LedgerScope' /\ StreamScope'
  \/ DeactivateEvent /\ LedgerScope' /\ StreamScope'
  \/ ReactivateEvent /\ LedgerScope' /\ StreamScope'
  \/ AddParticipant /\ LedgerScope' /\ StreamScope'
  \/ LedgerRoom /\ MintTicket /\ LedgerScope' /\ StreamScope'
  \/ LedgerRoom /\ BuyNewTicket /\ LedgerScope' /\ StreamScope'
  \/ VerifyZkProof /\ LedgerScope' /\ StreamScope'
  \/ CheckIn /\ LedgerScope' /\ StreamScope'
  \/ ListForSale /\ LedgerScope' /\ StreamScope'
  \/ BurnTicket /\ LedgerScope' /\ StreamScope'
  \/ TransferTicket /\ LedgerScope' /\ StreamScope'
  \/ FreezeTicket /\ LedgerScope' /\ StreamScope'
  \/ AdvanceEpoch /\ LedgerScope' /\ StreamScope'

\* The ledger of one event with its event stream.
SpecStream == InitStream /\ [][NextStream]_vars

\* ------------------------------------------------------------------ claims
\* The claims speak of create, join, leave, authorize, deactivate,
\* reactivate and add_participant: create_event_access, join_event,
\* leave_event, seal_approve, deactivate_event, reactivate_event and
\* add_participant; Unauthorized is ENotOrganizer, AlreadyEnrolled is
\* EAlreadyParticipant, NotEnrolled is ENotParticipant and EventInactive is
\* EEventNotActive.  A formula about a call quantifies over every call that
\* can be made in a reachable state: an aborted call leaves that state.

\* The participants of the EventAccess a.
Members(a) == DOMAIN a.participants

\* The conditions under which the claims say access is granted.
Granted(a, event_id, user) ==
  /\ event_id = a.event_id
  /\ a.is_active
  /\ user \in Members(a)
  /\ (~a.requires_payment \/ a.participants[user].has_paid)

\* C1: in every reachable state the organizer of every EventAccess is a
\* participant with access_level 2 and has_paid true, and leave_event called
\* by the organizer aborts with ENotOrganizer, the object unchanged.
C1_OrganizerPermanence ==
  \A p \in LivePolicies :
    LET a == access[p]
        r == leave_event(a, a.organizer, epoch)
    IN /\ a.organizer \in Members(a)
       /\ a.participants[a.organizer].access_level = 2
       /\ a.participants[a.organizer].has_paid
       /\ r.status = "ENotOrganizer"
       /\ r.obj = a

\* C1 witness: a deactivated policy of a later epoch with two participants
\* besides the organizer, one of them added by the organizer.
C1_Witness ==
  \E p \in LivePolicies :
    /\ ~access[p].is_active
    /\ Members(access[p]) = Principals
    /\ \E u \in Principals : access[p].participants[u].access_level = 1
    /\ access[p].created_at < epoch

\* C2: seal_approve returns true exactly when the claimed id is the policy's
\* event_id, the policy is active, the user is a participant and has paid
\* where payment is required; for every other well-formed id and user it
\* returns false, and a claimed id that differs from event_id never yields
\* true.  (Bytes that are no UTF-8 are no event id: C15.)
C2_AuthorizeExact ==
  \A p \in LivePolicies, event_id \in ByteVectors, user \in Principals :
    LET a == access[p]
        r == seal_approve(a, event_id, user, epoch)
    IN /\ (r.ret = "true") <=> Granted(a, event_id, user)
       /\ check_utf8(event_id) /\ ~Granted(a, event_id, user)
            => r.status = "ok" /\ r.ret = "false"
       /\ event_id # a.event_id => r.ret # "true"

\* C2 witness: an active paid policy with a participant who has not paid
\* (denied) beside the organizer (granted).
C2_Witness ==
  \E p \in LivePolicies, u \in Principals :
    /\ access[p].is_active
    /\ access[p].requires_payment
    /\ u \in Members(access[p])
    /\ ~access[p].participants[u].has_paid
    /\ seal_approve(access[p], access[p].event_id, u, epoch).ret = "false"
    /\ seal_approve(access[p], access[p].event_id, access[p].organizer,
                    epoch).ret = "true"

\* C3: deactivate_event by the organizer makes the policy inactive; while it
\* is inactive seal_approve returns true for nobody (false for every
\* well-formed id); and an inactive policy becomes active again only by a
\* step that is reactivate_event by the organizer.
C3_DeniedWhileInactive ==
  /\ [](\A p \in LivePolicies :
          LET a == access[p]
          IN /\ ~deactivate_event(a, a.organizer).obj.is_active
             /\ ~a.is_active =>
                  \A event_id \in ByteVectors, user \in Principals :
                    LET r == seal_approve(a, event_id, user, epoch)
                    IN /\ r.ret # "true"
                       /\ check_utf8(event_id) => r.ret = "false")
  /\ [][\A p \in LivePolicies :
          ~access[p].is_active /\ access'[p].is_active
            => access'[p] = reactivate_event(access[p], access[p].organizer).obj
       ]_vars

\* C3 witness: a deactivated policy whose participants would all be granted
\* access were it active.
C3_Witness ==
  \E p \in LivePolicies :
    /\ ~access[p].is_active
    /\ Members(access[p]) = Principals
    /\ \A u \in Principals :
         Granted([access[p] EXCEPT !.is_active = TRUE], access[p].event_id, u)

\* C6: on an active policy join_event by a principal who is no participant
\* succeeds and enrolls that principal, leaving every other record as it
\* was, and every further join_event by that principal, directly or after
\* another principal has joined, aborts with EAlreadyParticipant, the policy
\* unchanged and nothing emitted; a participant stays one until its own
\* leave_event, whatever the others do.
C6_JoinOnce ==
  /\ [](\A p \in LivePolicies, sender \in Principals :
          LET a == access[p]
              r == join_event(a, sender, epoch)
          IN a.is_active =>
               /\ sender \in Members(a) =>
                    /\ r.status = "EAlreadyParticipant"
                    /\ r.obj = a
                    /\ r.events = <<>>
               /\ sender \notin Members(a) =>
                    /\ r.status = "ok"
                    /\ Members(r.obj) = Members(a) \cup {sender}
                    /\ \A u \in Members(a) :
                         r.obj.participants[u] = a.participants[u]
                    /\ [r.obj EXCEPT !.participants = a.participants] = a
                    /\ join_event(r.obj, sender, epoch).status = "EAlreadyParticipant"
                    /\ \A other \in Principals \ {sender} :
                         join_event(join_event(r.obj, other, epoch).obj,
                                    sender, epoch).status = "EAlreadyParticipant")
  /\ [][\A p \in LivePolicies, u \in Principals :
          u \in Members(access[p]) /\ u \notin Members(access'[p])
            => access'[p] = leave_event(access[p], u, epoch).obj
       ]_vars

\* C6 witness: an active policy both other principals have joined.
C6_Witness ==
  \E p \in LivePolicies :
    /\ access[p].is_active
    /\ Members(access[p]) = Principals
    /\ \A u \in Principals \ {access[p].organizer} :
         /\ access[p].participants[u].access_level = 0
         /\ join_event(access[p], u, epoch).status = "EAlreadyParticipant"

\* C7 (as claimed): in a policy created with is_public = false, a step that
\* makes a principal a participant is add_participant called by the
\* organizer.
C7_PrivateEnrollmentByOrganizerOnly ==
  [][\A p \in LivePolicies, u \in Principals :
       /\ ~access[p].is_public
       /\ u \notin Members(access[p])
       /\ u \in Members(access'[p])
       => \E level \in Levels :
            access'[p] = add_participant(access[p], u, level,
                                         access[p].organizer, epoch).obj
    ]_vars

\* C8 (as claimed): while a policy is inactive no step adds a participant.
C8_NoEnrollmentWhileInactive ==
  [][\A p \in LivePolicies :
       ~access[p].is_active => Members(access'[p]) \subseteq Members(access[p])
    ]_vars

\* C8 (amended): while a policy is inactive join_event aborts with
\* EEventNotActive for every sender, the policy unchanged, and a step adds a
\* participant only if it is add_participant called by the organizer.
C8_OnlyOrganizerEnrollsWhileInactive ==
  /\ [](\A p \in LivePolicies, sender \in Principals :
          LET r == join_event(access[p], sender, epoch)
          IN ~access[p].is_active =>
               /\ r.status = "EEventNotActive"
               /\ r.obj = access[p]
               /\ r.events = <<>>)
  /\ [][\A p \in LivePolicies :
          ~access[p].is_active
            => \/ Members(access'[p]) \subseteq Members(access[p])
               \/ \E u \in Principals, level \in Levels :
                    LET r == add_participant(access[p], u, level,
                                             access[p].organizer, epoch)
                    IN r.status = "ok" /\ access'[p] = r.obj
       ]_vars

\* C8 witness: an inactive paid policy with a participant who did not pay
\* (so joined while it was active) and one the organizer added.
C8_Witness ==
  \E p \in LivePolicies, u, v \in Principals :
    /\ ~access[p].is_active
    /\ access[p].requires_payment
    /\ {u, v} \subseteq Members(access[p])
    /\ ~access[p].participants[u].has_paid
    /\ access[p].participants[v].access_level = 3

\* C9: deactivate_event and reactivate_event change nothing but is_active,
\* called by the organizer, and nothing at all called by anyone else; so
\* after deactivate and reactivate seal_approve answers every id and user as
\* it did before; and a step that changes is_active changes nothing else.
C9_ActivationFrame ==
  /\ [](\A p \in LivePolicies, sender \in Principals :
          LET a == access[p]
              d == deactivate_event(a, sender)
              r == reactivate_event(a, sender)
              back == reactivate_event(deactivate_event(a, a.organizer).obj,
                                       a.organizer).obj
          IN /\ d.obj = IF sender = a.organizer
                          THEN [a EXCEPT !.is_active = FALSE] ELSE a
             /\ r.obj = IF sender = a.organizer
                          THEN [a EXCEPT !.is_active = TRUE] ELSE a
             /\ d.events = <<>> /\ r.events = <<>>
             /\ a.is_active =>
                  \A event_id \in ByteVectors, user \in Principals :
                    seal_approve(back, event_id, user, epoch)
                      = seal_approve(a, event_id, user, epoch))
  /\ [][\A p \in LivePolicies :
          access'[p].is_active # access[p].is_active
            => access'[p] = [access[p] EXCEPT !.is_active = ~@]
       ]_vars

\* C9 witness: a policy that is active in a later epoch than it was created
\* in, with a participant who is granted access and one who is not.
C9_Witness ==
  \E p \in LivePolicies, u, v \in Principals :
    /\ access[p].is_active
    /\ access[p].created_at < epoch
    /\ u # access[p].organizer
    /\ Granted(access[p], access[p].event_id, u)
    /\ v \in Members(access[p])
    /\ ~Granted(access[p], access[p].event_id, v)

\* The claims speak of mint_free, mint_paid, submit_proof, check_in,
\* list_for_sale, buy and burn: mint_ticket, buy_new_ticket, verify_zk_proof,
\* check_in, list_for_sale, buy_ticket and burn_ticket; the holder of a
\* ticket is its attendee; Soulbound is ESoulbound.

\* C4: a soulbound ticket is minted to its sender, is owned by its attendee
\* and never shared, and no step changes the attendee, the owner or
\* is_soulbound of a soulbound ticket that exists after the step.  The
\* owner of a soulbound ticket hands it on with transfer::public_transfer,
\* as EventTicket has the ability store: the formula is violated.
C4_SoulboundHolderFixed ==
  /\ [](\A t \in LiveTickets :
          tickets[t].is_soulbound => tickets[t].owner = tickets[t].attendee)
  /\ [](FreshId(tickets, TicketIds) # 0 =>
          \A sender \in Principals, event_id \in ByteVectors,
             ticket_number \in TicketNumbers, metadata_uri \in UriVectors :
            LET t == FreshId(tickets, TicketIds)
                m == MintTicketTx(sender, event_id, ticket_number, TRUE,
                                  metadata_uri)
            IN /\ m.status = "ok" =>
                    /\ m.tickets[t].attendee = sender
                    /\ m.tickets[t].owner = sender
                    /\ m.tickets[t].is_soulbound
               /\ \A price \in Prices, organizer \in Principals,
                     payment \in 0..balance[sender] :
                    LET b == BuyNewTicketTx(sender, event_id, ticket_number,
                                            TRUE, metadata_uri, payment, price,
                                            organizer)
                    IN b.status = "ok" =>
                         /\ b.tickets[t].attendee = sender
                         /\ b.tickets[t].owner = sender
                         /\ b.tickets[t].is_soulbound)
  /\ [][\A t \in LiveTickets :
          tickets[t].is_soulbound /\ IsLive(tickets'[t])
            => /\ tickets'[t].attendee = tickets[t].attendee
               /\ tickets'[t].owner = tickets[t].owner
               /\ tickets'[t].is_soulbound
       ]_vars

\* C5 (as claimed): buy_new_ticket with a payment below the price aborts
\* with EInsufficientPayment: no ticket, no coin moved, no event.  With a
\* payment of at least the price it creates exactly one ticket, owned and
\* held by the sender, emits one TicketMinted and moves the whole payment
\* from the sender to the organizer passed: the organizer's balance grows
\* by the payment, excess included.
C5_PaymentAtomicity ==
  FreshId(tickets, TicketIds) # 0 =>
    \A sender \in Principals, event_id \in ByteVectors,
       ticket_number \in TicketNumbers, is_soulbound \in BOOLEAN,
       metadata_uri \in UriVectors, price \in Prices, organizer \in Principals :
      \A payment \in 0..balance[sender] :
        LET x == BuyNewTicketTx(sender, event_id, ticket_number, is_soulbound,
                                metadata_uri, payment, price, organizer)
            new == FreshId(tickets, TicketIds)
        IN /\ payment < price =>
                /\ x.status = "EInsufficientPayment"
                /\ x.tickets = tickets
                /\ x.balance = balance
                /\ x.listings = listings /\ x.proofs = proofs
                /\ x.events = <<>>
           /\ payment >= price =>
                /\ x.status = "ok"
                /\ \A t \in TicketIds : t # new => x.tickets[t] = tickets[t]
                /\ ~IsLive(tickets[new]) /\ IsLive(x.tickets[new])
                /\ x.tickets[new].attendee = sender
                /\ x.tickets[new].owner = sender
                /\ Len(x.events) = 1 /\ x.events[1].type = "TicketMinted"
                /\ x.balance = [[balance EXCEPT ![sender] = @ - payment]
                                  EXCEPT ![organizer] = @ + payment]
                /\ organizer # sender =>
                     /\ x.balance[organizer] = balance[organizer] + payment
                     /\ x.balance[sender] = balance[sender] - payment
                /\ \A a \in Principals \ {sender, organizer} :
                     x.balance[a] = balance[a]

\* C10: list_for_sale on a soulbound ticket aborts with ESoulbound for every
\* price, whoever owns the ticket and sends the call: no listing, no event,
\* the ticket unchanged and with its owner, not shared; and no listing
\* refers to a soulbound ticket.
C10_SoulboundNeverListed ==
  /\ \A t \in LiveTickets, price \in Prices :
       LET x == ListForSaleTx(t, price)
       IN tickets[t].is_soulbound =>
            /\ x.status = "ESoulbound"
            /\ x.listings = listings
            /\ x.tickets = tickets
            /\ x.events = <<>>
            /\ x.tickets[t].owner # Shared
  /\ \A l \in LiveListings :
       IsLive(tickets[listings[l].ticket_id])
         => ~tickets[listings[l].ticket_id].is_soulbound

\* C10 witness: a soulbound ticket, checked in, that a principal other than
\* its attendee owns and can pass to list_for_sale.
C10_Witness ==
  \E t \in LiveTickets :
    /\ tickets[t].is_soulbound
    /\ tickets[t].checked_in
    /\ tickets[t].owner \in Principals \ {tickets[t].attendee}

\* ------------------------------------------------ claims on seal_access, II

\* C11: deactivate_event, reactivate_event and add_participant called by a
\* sender who is not the organizer abort with ENotOrganizer, the policy
\* (is_active and participants included) unchanged and nothing emitted; and
\* a step that changes is_active is deactivate_event or reactivate_event
\* called by the organizer.
C11_OrganizerOnly ==
  /\ [](\A p \in LivePolicies, sender \in Principals :
          LET a == access[p]
              d == deactivate_event(a, sender)
              r == reactivate_event(a, sender)
          IN sender # a.organizer =>
               /\ d.status = "ENotOrganizer" /\ d.obj = a /\ d.events = <<>>
               /\ r.status = "ENotOrganizer" /\ r.obj = a /\ r.events = <<>>
               /\ \A participant \in Principals, access_level \in Levels :
                    LET x == add_participant(a, participant, access_level,
                                             sender, epoch)
                    IN /\ x.status = "ENotOrganizer"
                       /\ x.obj = a
                       /\ x.events = <<>>)
  /\ [][\A p \in LivePolicies :
          access'[p].is_active # access[p].is_active
            => \/ access'[p] = deactivate_event(access[p], access[p].organizer).obj
               \/ access'[p] = reactivate_event(access[p], access[p].organizer).obj
       ]_vars

\* C11 witness: an inactive policy with a participant who is not the
\* organizer and a principal who is no participant: the former's
\* reactivate_event and add_participant of the latter abort.
C11_Witness ==
  \E p \in LivePolicies, u, v \in Principals :
    /\ ~access[p].is_active
    /\ u # access[p].organizer
    /\ u \in Members(access[p])
    /\ v \notin Members(access[p])
    /\ reactivate_event(access[p], u).status = "ENotOrganizer"
    /\ add_participant(access[p], v, 1, u, epoch).status = "ENotOrganizer"

\* C13: seal_approve emits one AccessGranted, for the policy's event_id and
\* the user, exactly when it returns true; when it returns false, whatever
\* the reason, it emits nothing.
C13_GrantEmittedIffTrue ==
  \A p \in LivePolicies, event_id \in ByteVectors, user \in Principals :
    LET a == access[p]
        r == seal_approve(a, event_id, user, epoch)
    IN /\ r.ret = "true" =>
            r.events = <<[type |-> "AccessGranted", event_id |-> a.event_id,
                          user |-> user, timestamp |-> epoch]>>
       /\ r.ret = "false" => r.events = <<>>
       /\ r.events # <<>> => r.ret = "true"

\* C13 witness: an active paid policy where seal_approve denies for a wrong
\* id, for a principal who is no participant and for a participant who has
\* not paid, grants to the organizer, and denies everyone once deactivated.
C13_Witness ==
  \E p \in LivePolicies, u, v \in Principals :
    LET a == access[p]
        off == deactivate_event(a, a.organizer).obj
    IN /\ a.is_active
       /\ a.requires_payment
       /\ a.event_id # <<>>
       /\ u \notin Members(a)
       /\ v \in Members(a) /\ ~a.participants[v].has_paid
       /\ seal_approve(a, <<>>, a.organizer, epoch).ret = "false"
       /\ seal_approve(a, a.event_id, u, epoch).ret = "false"
       /\ seal_approve(a, a.event_id, v, epoch).ret = "false"
       /\ seal_approve(off, a.event_id, a.organizer, epoch).ret = "false"
       /\ seal_approve(a, a.event_id, a.organizer, epoch).ret = "true"

\* C14: seal_approve leaves the EventAccess as it is, whatever it returns;
\* what it returns does not depend on the epoch of the call; and a step that
\* leaves a policy unchanged leaves what seal_approve returns on it
\* unchanged, for every id and user (in the same epoch it is the same call,
\* so the step to tell is one into a new epoch).
C14_AuthorizeReadOnly ==
  /\ [](\A p \in LivePolicies, event_id \in ByteVectors, user \in Principals,
           timestamp \in Epochs :
          LET a == access[p]
              r == seal_approve(a, event_id, user, timestamp)
          IN /\ r.obj = a
             /\ r.ret = seal_approve(r.obj, event_id, user, epoch).ret)
  /\ [][\A p \in LivePolicies :
          access'[p] = access[p] /\ epoch' # epoch =>
            /\ \A event_id \in ByteVectors, user \in Principals :
                 seal_approve(access'[p], event_id, user, epoch').ret
                   = seal_approve(access[p], event_id, user, epoch).ret
       ]_vars

\* C14 witness: a free, active policy of an earlier epoch with a participant
\* who joined: seal_approve grants to that participant.
C14_Witness ==
  \E p \in LivePolicies, u \in Principals :
    /\ access[p].created_at < epoch
    /\ ~access[p].requires_payment
    /\ u # access[p].organizer
    /\ u \in Members(access[p])
    /\ access[p].participants[u].access_level = 0
    /\ seal_approve(access[p], access[p].event_id, u, epoch).ret = "true"

\* C15 (as claimed): seal_approve returns true or false for every claimed id
\* and every user; it never aborts.
C15_AuthorizeNeverAborts ==
  \A p \in LivePolicies, event_id \in ByteVectors, user \in Principals :
    LET r == seal_approve(access[p], event_id, user, epoch)
    IN r.status = "ok" /\ r.ret \in {"true", "false"}

\* C20: leave_event called by a principal who is no participant aborts with
\* ENotParticipant, the policy unchanged; called by a participant who is not
\* the organizer it removes the record of that participant and changes
\* nothing else; and seal_approve returns true for no principal who is not a
\* participant, so for the one who left not before that principal is a
\* participant again.
C20_LeaveRemovesOne ==
  \A p \in LivePolicies, sender \in Principals :
    LET a == access[p]
        r == leave_event(a, sender, epoch)
    IN /\ sender \notin Members(a) =>
            /\ r.status = "ENotParticipant"
            /\ r.obj = a
            /\ r.events = <<>>
            /\ \A event_id \in ByteVectors :
                 seal_approve(a, event_id, sender, epoch).ret # "true"
       /\ sender \in Members(a) /\ sender # a.organizer =>
            /\ r.status = "ok"
            /\ Members(r.obj) = Members(a) \ {sender}
            /\ \A u \in Members(r.obj) :
                 r.obj.participants[u] = a.participants[u]
            /\ [r.obj EXCEPT !.participants = a.participants] = a
            /\ \A event_id \in ByteVectors :
                 seal_approve(r.obj, event_id, sender, epoch).ret # "true"
            /\ leave_event(r.obj, sender, epoch).status = "ENotParticipant"

\* C20 witness: an active free policy with a participant who joined, whom
\* seal_approve grants access, and a principal who is no participant.
C20_Witness ==
  \E p \in LivePolicies, u, v \in Principals :
    /\ access[p].is_active
    /\ u # access[p].organizer
    /\ u \in Members(access[p])
    /\ v \notin Members(access[p])
    /\ seal_approve(access[p], access[p].event_id, u, epoch).ret = "true"
    /\ leave_event(access[p], u, epoch).status = "ok"
    /\ leave_event(access[p], v, epoch).status = "ENotParticipant"

\* C21: on an active policy two principals who are no participants can
\* join in either order, in one epoch or in two: all four calls succeed,
\* both orders end with the same participants, each with the same has_paid
\* and access_level, and equal in every other field of the policy; the
\* second join leaves the record of the first as it was, and both leave the
\* records there were.
C21_JoinsCommute ==
  \A p \in LivePolicies, u, v \in Principals, later \in Epochs :
    LET a == access[p]
        ju == join_event(a, u, epoch)
        juv == join_event(ju.obj, v, later)
        jv == join_event(a, v, epoch)
        jvu == join_event(jv.obj, u, later)
    IN a.is_active /\ u # v /\ u \notin Members(a) /\ v \notin Members(a)
         /\ later >= epoch =>
         /\ ju.status = "ok" /\ juv.status = "ok"
         /\ jv.status = "ok" /\ jvu.status = "ok"
         /\ Members(juv.obj) = Members(a) \cup {u, v}
         /\ Members(jvu.obj) = Members(a) \cup {u, v}
         /\ \A x \in Members(juv.obj) :
              /\ juv.obj.participants[x].has_paid
                   = jvu.obj.participants[x].has_paid
              /\ juv.obj.participants[x].access_level
                   = jvu.obj.participants[x].access_level
         /\ [juv.obj EXCEPT !.participants = a.participants]
              = [jvu.obj EXCEPT !.participants = a.participants]
         /\ juv.obj.participants[u] = ju.obj.participants[u]
         /\ jvu.obj.participants[v] = jv.obj.participants[v]
         /\ \A x \in Members(a) :
              /\ juv.obj.participants[x] = a.participants[x]
              /\ jvu.obj.participants[x] = a.participants[x]

\* C21 witness: an active paid policy that two principals joined, one in an
\* earlier epoch than the other.
C21_Witness ==
  \E p \in LivePolicies, u, v \in Principals :
    /\ access[p].is_active
    /\ access[p].requires_payment
    /\ {u, v} \subseteq Members(access[p])
    /\ ~access[p].participants[u].has_paid
    /\ ~access[p].participants[v].has_paid
    /\ access[p].participants[u].joined_at < access[p].participants[v].joined_at

\* C25 (as claimed): create_event_access with an empty event_id aborts and
\* with every other event_id succeeds; no EventAccess has an empty event_id.
C25_CreateRejectsEmptyId ==
  /\ \A p \in LivePolicies : access[p].event_id # <<>>
  /\ \A sender \in Principals, event_id \in ByteVectors,
        is_public \in BOOLEAN, requires_payment \in BOOLEAN,
        payment_amount \in Prices :
       LET r == create_event_access(event_id, is_public, requires_payment,
                                    payment_amount, sender, epoch)
       IN /\ event_id = <<>> => r.status # "ok" /\ r.obj = NoObject
          /\ event_id # <<>> => r.status = "ok"

\* C26: a step that creates a public, free EventAccess leads to a state
\* where, for its creator: the policy is active, is_participant is true,
\* join_event aborts with EAlreadyParticipant and seal_approve with the
\* policy's event_id returns true; and create_event_access makes the
\* sender the organizer, in the epoch of the call.
C26_AfterCreate ==
  /\ [](FreshId(access, PolicyIds) # 0 =>
          \A sender \in Principals, event_id \in ByteVectors,
             payment_amount \in Prices :
            LET r == create_event_access(event_id, TRUE, FALSE,
                                         payment_amount, sender, epoch)
            IN r.status = "ok" =>
                 /\ r.obj.organizer = sender
                 /\ r.obj.is_active
                 /\ is_participant(r.obj, sender)
                 /\ join_event(r.obj, sender, epoch).status
                      = "EAlreadyParticipant"
                 /\ seal_approve(r.obj, event_id, sender, epoch).ret = "true")
  /\ [][\A p \in PolicyIds :
          /\ access[p] = NoObject /\ access'[p] # NoObject
          /\ access'[p].is_public /\ ~access'[p].requires_payment
          => LET a == access'[p]
             IN /\ a.is_active
                /\ is_participant(a, a.organizer)
                /\ Members(a) = {a.organizer}
                /\ join_event(a, a.organizer, epoch').status
                     = "EAlreadyParticipant"
                /\ seal_approve(a, a.event_id, a.organizer, epoch').ret
                     = "true"
       ]_vars

\* C26 witness: a public, free policy in the epoch of its creation, active
\* and with no participant but its organizer.
C26_Witness ==
  \E p \in LivePolicies :
    /\ access[p].is_public
    /\ ~access[p].requires_payment
    /\ access[p].is_active
    /\ access[p].created_at = epoch
    /\ epoch > 0
    /\ Members(access[p]) = {access[p].organizer}
    /\ access[p].participants[access[p].organizer].joined_at = epoch

\* C27: the record join_event inserts has has_paid = ~requires_payment and
\* access_level 0; the record add_participant inserts has has_paid true,
\* whatever requires_payment is, and the access_level passed; both have
\* joined_at the epoch of the call; add_participant of a participant aborts
\* with EAlreadyParticipant, the record and the policy unchanged.
C27_RecordsCreated ==
  \A p \in LivePolicies, u \in Principals :
    LET a == access[p]
        j == join_event(a, u, epoch)
    IN /\ j.status = "ok" =>
            j.obj.participants[u] =
              [joined_at |-> epoch, has_paid |-> ~a.requires_payment,
               access_level |-> 0]
       /\ \A access_level \in Levels :
            LET x == add_participant(a, u, access_level, a.organizer, epoch)
            IN /\ u \notin Members(a) =>
                    /\ x.status = "ok"
                    /\ x.obj.participants[u] =
                         [joined_at |-> epoch, has_paid |-> TRUE,
                          access_level |-> access_level]
                    /\ \A w \in Members(a) :
                         x.obj.participants[w] = a.participants[w]
               /\ u \in Members(a) =>
                    /\ x.status = "EAlreadyParticipant"
                    /\ x.obj = a
                    /\ x.obj.participants[u] = a.participants[u]
                    /\ x.events = <<>>

\* C27 witness: an active paid policy with a participant who joined (not
\* paid, level 0) and one the organizer added at level 1 (paid).
C27_Witness ==
  \E p \in LivePolicies, u, v \in Principals :
    /\ access[p].is_active
    /\ access[p].requires_payment
    /\ {u, v} \subseteq Members(access[p])
    /\ ~access[p].participants[u].has_paid
    /\ access[p].participants[u].access_level = 0
    /\ access[p].participants[v].has_paid
    /\ access[p].participants[v].access_level = 1
    /\ add_participant(access[p], u, 2, access[p].organizer, epoch).status
         = "EAlreadyParticipant"

\* C30 (as claimed): every record of every EventAccess has an access_level
\* of 0, 1 or 2.
C30_AccessLevelInRange ==
  \A p \in LivePolicies :
    \A u \in Members(access[p]) :
      access[p].participants[u].access_level \in {0, 1, 2}

\* ----------------------------------------------- claims on seal_access, III
\* authorize_membership_only is seal_approve_simple.

\* C31: seal_approve_simple returns, changes nothing, and its result is true
\* exactly when the user is a participant, whatever is_active and
\* requires_payment of the policy and has_paid of the participant are; so
\* it is true whenever seal_approve is true for some id.
C31_MembershipOnly ==
  \A p \in LivePolicies, user \in Principals :
    LET a == access[p]
        r == seal_approve_simple(a, user)
    IN /\ r.status = "ok" /\ r.obj = a /\ r.events = <<>>
       /\ (r.ret = "true") <=> user \in Members(a)
       /\ (r.ret = "false") <=> user \notin Members(a)
       /\ \A active \in BOOLEAN, paying \in BOOLEAN, paid \in BOOLEAN :
            LET b == [a EXCEPT !.is_active = active,
                               !.requires_payment = paying,
                               !.participants =
                                 [x \in DOMAIN @ |->
                                    [@[x] EXCEPT !.has_paid = paid]]]
            IN seal_approve_simple(b, user).ret = r.ret
       /\ \A event_id \in ByteVectors :
            seal_approve(a, event_id, user, epoch).ret = "true"
              => r.ret = "true"

\* C31 witness: a deactivated paid policy with a participant who has not
\* paid: seal_approve_simple is true for them, seal_approve false, and
\* seal_approve_simple is false for a principal who is no participant.
C31_Witness ==
  \E p \in LivePolicies, u \in Principals, v \in Principals :
    /\ ~access[p].is_active
    /\ access[p].requires_payment
    /\ u \in Members(access[p])
    /\ ~access[p].participants[u].has_paid
    /\ seal_approve_simple(access[p], u).ret = "true"
    /\ seal_approve(access[p], access[p].event_id, u, epoch).ret = "false"
    /\ v \notin Members(access[p])
    /\ seal_approve_simple(access[p], v).ret = "false"

\* C34: create_event_access makes the sender the organizer and stores
\* event_id, is_public, requires_payment and payment_amount as given; no
\* step changes one of these five fields of an EventAccess that exists.
C34_PolicyFieldsFixed ==
  /\ [](FreshId(access, PolicyIds) # 0 =>
          \A sender \in Principals, event_id \in ByteVectors,
             is_public \in BOOLEAN, requires_payment \in BOOLEAN,
             payment_amount \in Prices :
            LET r == create_event_access(event_id, is_public,
                                         requires_payment, payment_amount,
                                         sender, epoch)
            IN r.status = "ok" =>
                 /\ r.obj.organizer = sender
                 /\ r.obj.event_id = event_id
                 /\ r.obj.is_public = is_public
                 /\ r.obj.requires_payment = requires_payment
                 /\ r.obj.payment_amount = payment_amount)
  /\ [][\A p \in LivePolicies :
          /\ access'[p].organizer = access[p].organizer
          /\ access'[p].event_id = access[p].event_id
          /\ access'[p].is_public = access[p].is_public
          /\ access'[p].requires_payment = access[p].requires_payment
          /\ access'[p].payment_amount = access[p].payment_amount
       ]_vars

\* C34 witness: a private paid policy of an earlier epoch that was
\* deactivated and reactivated or never deactivated, after the organizer
\* has added a participant of level 2 and another principal has joined.
C34_Witness ==
  \E p \in LivePolicies, u \in Principals, v \in Principals :
    /\ access[p].is_active
    /\ ~access[p].is_public
    /\ access[p].requires_payment
    /\ access[p].payment_amount = MaxPrice
    /\ access[p].created_at < epoch
    /\ u # access[p].organizer /\ v # access[p].organizer
    /\ u \in Members(access[p]) /\ v \in Members(access[p])
    /\ access[p].participants[u].access_level = 2
    /\ ~access[p].participants[v].has_paid

\* C40: no step changes has_paid of a participant record that stays; a
\* participant who has not paid is one of a policy that requires payment,
\* and seal_approve is true for them with no id; and a step after which a
\* principal who was no participant is one who has paid, in a policy that
\* requires payment, is add_participant by the organizer.
C40_HasPaidFixed ==
  /\ [](\A p \in LivePolicies, u \in Principals :
          LET a == access[p]
          IN /\ u \in Members(a) /\ ~a.participants[u].has_paid =>
                  /\ a.requires_payment
                  /\ u # a.organizer
                  /\ \A event_id \in ByteVectors :
                       seal_approve(a, event_id, u, epoch).ret # "true"
             /\ a.requires_payment /\ join_event(a, u, epoch).status = "ok"
                  => ~join_event(a, u, epoch).obj.participants[u].has_paid)
  /\ [][\A p \in LivePolicies, u \in Principals :
          LET a == access[p]
              b == access'[p]
          IN /\ u \in Members(a) /\ u \in Members(b) =>
                  b.participants[u].has_paid = a.participants[u].has_paid
             /\ /\ a.requires_payment
                /\ u \notin Members(a)
                /\ u \in Members(b)
                /\ b.participants[u].has_paid
                => \E access_level \in Levels :
                     b = add_participant(a, u, access_level, a.organizer,
                                         epoch).obj
       ]_vars

\* C40 witness: an active policy that requires payment, in a later epoch
\* than its creation, with a participant who joined and is denied beside a
\* participant whom the organizer added in the later epoch and who is
\* granted access.
C40_Witness ==
  \E p \in LivePolicies, u \in Principals, v \in Principals :
    LET a == access[p]
    IN /\ a.is_active /\ a.requires_payment
       /\ u \in Members(a) /\ ~a.participants[u].has_paid
       /\ seal_approve(a, a.event_id, u, epoch).ret = "false"
       /\ v \in Members(a) /\ v # a.organizer
       /\ a.participants[v].has_paid
       /\ a.participants[v].joined_at > a.created_at
       /\ seal_approve(a, a.event_id, v, epoch).ret = "true"

\* ------------------------------------------------ claims on both modules

\* A call of seal_access that leaves the EventAccess a and emits nothing.
NoEffectOn(a, r) == r.status # "ok" /\ r.obj = a /\ r.events = <<>>

\* A transaction of ticket_system that leaves tickets, listings, proofs and
\* balances and emits nothing.
NoEffect(x) ==
  /\ x.status # "ok"
  /\ x.tickets = tickets /\ x.listings = listings
  /\ x.proofs = proofs /\ x.balance = balance
  /\ x.events = <<>>

\* C12: a call of join_event, leave_event, add_participant,
\* deactivate_event, reactivate_event, buy_new_ticket, check_in,
\* verify_zk_proof, list_for_sale or buy_ticket whose precondition is
\* violated aborts, and every such call that aborts leaves policies,
\* tickets, listings, CheckInProofs and balances as they were and emits
\* nothing; a step that changes an EventAccess changes nothing of
\* ticket_system, and the other way round.
C12_RejectedCallsChangeNothing ==
  /\ [](\A p \in LivePolicies, sender \in Principals :
          LET a == access[p]
              j == join_event(a, sender, epoch)
              l == leave_event(a, sender, epoch)
              d == deactivate_event(a, sender)
              r == reactivate_event(a, sender)
          IN /\ (~a.is_active \/ sender \in Members(a)) \/ j.status # "ok"
                  => NoEffectOn(a, j)
             /\ (sender \notin Members(a) \/ sender = a.organizer)
                  \/ l.status # "ok" => NoEffectOn(a, l)
             /\ sender # a.organizer \/ d.status # "ok" => NoEffectOn(a, d)
             /\ sender # a.organizer \/ r.status # "ok" => NoEffectOn(a, r)
             /\ \A participant \in Principals, access_level \in Levels :
                  LET x == add_participant(a, participant, access_level,
                                           sender, epoch)
                  IN (sender # a.organizer \/ participant \in Members(a))
                       \/ x.status # "ok" => NoEffectOn(a, x))
  /\ [](FreshId(tickets, TicketIds) # 0 =>
          \A sender \in Principals, event_id \in ByteVectors,
             ticket_number \in TicketNumbers, is_soulbound \in BOOLEAN,
             metadata_uri \in UriVectors, price \in Prices,
             organizer \in Principals :
            \A payment \in 0..balance[sender] :
              LET x == BuyNewTicketTx(sender, event_id, ticket_number,
                                      is_soulbound, metadata_uri, payment,
                                      price, organizer)
              IN payment < price \/ x.status # "ok" => NoEffect(x))
  /\ [](\A sender \in Principals, t \in LiveTickets :
          CanUse(sender, tickets[t]) =>
            /\ LET x == CheckInTx(sender, t)
               IN (tickets[t].checked_in \/ sender # tickets[t].attendee)
                    \/ x.status # "ok" => NoEffect(x)
            /\ \A zk_proof \in ProofVectors :
                 LET x == VerifyZkProofTx(t, zk_proof)
                 IN Len(zk_proof) = 0 \/ x.status # "ok" => NoEffect(x)
            /\ \A price \in Prices :
                 LET x == ListForSaleTx(t, price)
                 IN tickets[t].is_soulbound \/ x.status # "ok" => NoEffect(x)
            /\ \A l \in LiveListings :
                 \A payment \in 0..balance[sender] :
                 LET x == BuyTicketTx(sender, l, t, payment)
                 IN payment < listings[l].price \/ x.status # "ok"
                      => NoEffect(x))
  /\ [][/\ access' # access
             => UNCHANGED <<tickets, listings, proofs, balance>>
        /\ <<tickets, listings, proofs, balance>>'
             # <<tickets, listings, proofs, balance>> => access' = access
       ]_vars

\* C12 witness: a deactivated policy with a participant, beside a soulbound
\* ticket that is checked in, held by a principal who has spent the payment:
\* join_event, leave_event by the organizer, check_in, list_for_sale and
\* verify_zk_proof without a proof are rejected here.
C12_Witness ==
  \E p \in LivePolicies, t \in LiveTickets, u \in Principals :
    /\ ~access[p].is_active
    /\ u # access[p].organizer /\ u \in Members(access[p])
    /\ tickets[t].is_soulbound
    /\ tickets[t].checked_in
    /\ balance[tickets[t].attendee] = 0
    /\ join_event(access[p], u, epoch).status = "EEventNotActive"
    /\ leave_event(access[p], access[p].organizer, epoch).status = "ENotOrganizer"
    /\ CheckInTx(tickets[t].attendee, t).status = "EAlreadyCheckedIn"
    /\ ListForSaleTx(t, 0).status = "ESoulbound"
    /\ VerifyZkProofTx(t, <<>>).status = "EInvalidZKProof"

\* A call of seal_access that returned and changed the EventAccess a.
ChangedBy(a, r) == r.status = "ok" /\ r.obj # a

\* A transaction of ticket_system that returned and changed a ticket, a
\* listing, a CheckInProof or a balance.
Changed(x) ==
  /\ x.status = "ok"
  /\ \/ x.tickets # tickets \/ x.listings # listings
     \/ x.proofs # proofs \/ x.balance # balance

\* The events of a call are one event of the type given.
EmitsOne(events, type) == Len(events) = 1 /\ events[1].type = type

\* C22 (as claimed): every call that succeeds and changes the state emits
\* exactly one event.
C22_EverySuccessEmitsOne ==
  /\ FreshId(access, PolicyIds) # 0 =>
       \A sender \in Principals, event_id \in ByteVectors,
          is_public \in BOOLEAN, requires_payment \in BOOLEAN,
          payment_amount \in Prices :
         LET r == create_event_access(event_id, is_public, requires_payment,
                                      payment_amount, sender, epoch)
         IN r.status = "ok" => Len(r.events) = 1
  /\ \A p \in LivePolicies, sender \in Principals :
       LET a == access[p]
           j == join_event(a, sender, epoch)
           l == leave_event(a, sender, epoch)
           d == deactivate_event(a, sender)
           r == reactivate_event(a, sender)
       IN /\ ChangedBy(a, j) => Len(j.events) = 1
          /\ ChangedBy(a, l) => Len(l.events) = 1
          /\ ChangedBy(a, d) => Len(d.events) = 1
          /\ ChangedBy(a, r) => Len(r.events) = 1
          /\ \A participant \in Principals, access_level \in Levels :
               LET x == add_participant(a, participant, access_level,
                                        sender, epoch)
               IN ChangedBy(a, x) => Len(x.events) = 1
  /\ \A sender \in Principals, t \in LiveTickets :
       CanUse(sender, tickets[t]) =>
         /\ LET x == CheckInTx(sender, t)
            IN Changed(x) => Len(x.events) = 1
         /\ LET x == BurnTicketTx(t)
            IN Changed(x) => Len(x.events) = 1
         /\ \A zk_proof \in ProofVectors :
              LET x == VerifyZkProofTx(t, zk_proof)
              IN Changed(x) => Len(x.events) = 1
         /\ \A price \in Prices :
              LET x == ListForSaleTx(t, price)
              IN Changed(x) => Len(x.events) = 1
         /\ \A l \in LiveListings :
              \A payment \in 0..balance[sender] :
                LET x == BuyTicketTx(sender, l, t, payment)
                IN Changed(x) => Len(x.events) = 1

\* The records of one sequence are the first records of the other.
IsPrefix(s, t) == Len(s) <= Len(t) /\ SubSeq(t, 1, Len(s)) = s

\* C22 (amended): a successful join_event emits one ParticipantJoined,
\* leave_event one ParticipantLeft, mint_ticket and buy_new_ticket one
\* TicketMinted, check_in one AttendeeCheckedIn and list_for_sale one
\* TicketListed, and seal_approve one AccessGranted when it grants;
\* create_event_access, add_participant, deactivate_event,
\* reactivate_event, verify_zk_proof, buy_ticket and burn_ticket emit
\* nothing, also when they change the state; a call that aborts emits
\* nothing. And in every step the records of the event stream stay, each
\* at its place and as it was, and at most one record is appended.
C22_EmissionTable ==
  /\ [](/\ FreshId(access, PolicyIds) # 0 =>
            \A sender \in Principals, event_id \in ByteVectors,
               is_public \in BOOLEAN, requires_payment \in BOOLEAN,
               payment_amount \in Prices :
              create_event_access(event_id, is_public, requires_payment,
                                  payment_amount, sender, epoch).events = <<>>
        /\ \A p \in LivePolicies, sender \in Principals :
             LET a == access[p]
                 j == join_event(a, sender, epoch)
                 l == leave_event(a, sender, epoch)
             IN /\ IF j.status = "ok"
                     THEN EmitsOne(j.events, "ParticipantJoined")
                     ELSE j.events = <<>>
                /\ IF l.status = "ok"
                     THEN EmitsOne(l.events, "ParticipantLeft")
                     ELSE l.events = <<>>
                /\ deactivate_event(a, sender).events = <<>>
                /\ reactivate_event(a, sender).events = <<>>
                /\ \A participant \in Principals, access_level \in Levels :
                     add_participant(a, participant, access_level, sender,
                                     epoch).events = <<>>
                /\ \A event_id \in ByteVectors :
                     LET r == seal_approve(a, event_id, sender, epoch)
                     IN IF r.ret = "true"
                          THEN EmitsOne(r.events, "AccessGranted")
                          ELSE r.events = <<>>
        /\ FreshId(tickets, TicketIds) # 0 =>
             \A sender \in Principals, event_id \in ByteVectors,
                ticket_number \in TicketNumbers, is_soulbound \in BOOLEAN,
                metadata_uri \in UriVectors :
               /\ LET x == MintTicketTx(sender, event_id, ticket_number,
                                        is_soulbound, metadata_uri)
                  IN IF x.status = "ok"
                       THEN EmitsOne(x.events, "TicketMinted")
                       ELSE x.events = <<>>
               /\ \A price \in Prices, organizer \in Principals :
                    \A payment \in 0..balance[sender] :
                      LET x == BuyNewTicketTx(sender, event_id, ticket_number,
                                              is_soulbound, metadata_uri,
                                              payment, price, organizer)
                      IN IF x.status = "ok"
                           THEN EmitsOne(x.events, "TicketMinted")
                           ELSE x.events = <<>>
        /\ \A sender \in Principals, t \in LiveTickets :
             CanUse(sender, tickets[t]) =>
               /\ LET x == CheckInTx(sender, t)
                  IN IF x.status = "ok"
                       THEN EmitsOne(x.events, "AttendeeCheckedIn")
                       ELSE x.events = <<>>
               /\ BurnTicketTx(t).events = <<>>
               /\ \A zk_proof \in ProofVectors :
                    VerifyZkProofTx(t, zk_proof).events = <<>>
               /\ \A price \in Prices :
                    LET x == ListForSaleTx(t, price)
                    IN IF x.status = "ok"
                         THEN EmitsOne(x.events, "TicketListed")
                         ELSE x.events = <<>>
               /\ \A l \in LiveListings :
                    \A payment \in 0..balance[sender] :
                      BuyTicketTx(sender, l, t, payment).events = <<>>)
  /\ [][/\ IsPrefix(stream.records, stream'.records)
        /\ Len(stream'.records) <= Len(stream.records) + 1
        /\ stream'.followed = stream.followed]_vars

\* C22 witness: the stream holds the two records of the publication, then
\* the TicketMinted of a ticket bought at mint and the AttendeeCheckedIn of
\* its check-in, each at its place; the ticket was given a proof and a
\* policy was created and deactivated, which left no record.
C22_Witness ==
  /\ stream.followed
  /\ Len(stream.records) = 4
  /\ stream.records[1].type = "DisplayCreated"
  /\ stream.records[2].type = "VersionUpdated"
  /\ stream.records[3].type = "TicketMinted"
  /\ stream.records[4].type = "AttendeeCheckedIn"
  /\ \E p \in LivePolicies, t \in LiveTickets :
       /\ ~access[p].is_active
       /\ tickets[t].checked_in
       /\ tickets[t].zk_proof_hash # <<>>
       /\ Len(proofs) = 1
       /\ balance[tickets[t].attendee] = 0
       /\ stream.records[3].attendee = tickets[t].attendee
       /\ stream.records[4].attendee = tickets[t].attendee

\* C28: a step that changes an EventAccess leaves every ticket, listing and
\* CheckInProof as it was, and a step that changes one of these leaves
\* every EventAccess as it was; a step that deletes a ticket leaves the
\* participants; and check_in succeeds for the attendee of a ticket that is
\* not checked in, and that the attendee owns, while the policy of its event
\* is inactive or the attendee is no participant of it.
C28_ModulesIndependent ==
  /\ [](\A p \in LivePolicies, t \in LiveTickets :
          /\ tickets[t].event_id = access[p].event_id
          /\ tickets[t].owner = tickets[t].attendee
          /\ ~tickets[t].checked_in
          /\ (~access[p].is_active
                \/ ~is_participant(access[p], tickets[t].attendee))
          => LET x == CheckInTx(tickets[t].attendee, t)
             IN x.status = "ok" /\ x.tickets[t].checked_in)
  /\ [][/\ access' # access => UNCHANGED <<tickets, listings, proofs>>
        /\ <<tickets, listings, proofs>>' # <<tickets, listings, proofs>>
             => access' = access
        /\ \A t \in LiveTickets :
             tickets'[t] = Deleted =>
               \A p \in LivePolicies :
                 access'[p].participants = access[p].participants
       ]_vars

\* C28 witness: a deactivated policy and a ticket of its event that is
\* checked in, held by a principal who is no participant; the organizer's
\* own ticket is out of the question, the attendee has paid for this one.
C28_Witness ==
  \E p \in LivePolicies, t \in LiveTickets :
    /\ ~access[p].is_active
    /\ tickets[t].event_id = access[p].event_id
    /\ ~is_participant(access[p], tickets[t].attendee)
    /\ tickets[t].checked_in
    /\ tickets[t].owner = tickets[t].attendee
    /\ tickets[t].is_soulbound
    /\ Members(access[p]) # {access[p].organizer}
    /\ balance[access[p].organizer] = 2

\* --------------------------------------------- claims on ticket_system, II
\* Unauthorized is EUnauthorized, AlreadyCheckedIn is EAlreadyCheckedIn and
\* InsufficientPayment is EInsufficientPayment; an attendance proof is a
\* CheckInProof.

\* C16: check_in sets checked_in; on a ticket that is checked in check_in
\* aborts with EAlreadyCheckedIn for every sender, nothing changed; and no
\* step (verify_zk_proof, list_for_sale, a transfer or any other) makes
\* checked_in false again on a ticket that exists after it.
C16_CheckedInMonotonic ==
  /\ [](\A t \in LiveTickets, sender \in Principals :
          LET x == CheckInTx(sender, t)
          IN /\ x.status = "ok" => x.tickets[t].checked_in
             /\ tickets[t].checked_in =>
                  /\ x.status = "EAlreadyCheckedIn"
                  /\ x.tickets = tickets /\ x.proofs = proofs
                  /\ x.events = <<>>)
  /\ [][\A t \in LiveTickets :
          tickets[t].checked_in /\ IsLive(tickets'[t])
            => tickets'[t].checked_in
       ]_vars

\* C16 witness: a ticket that was checked in, handed on to another owner
\* since and given a proof: it is checked in still, and check_in by its
\* attendee and by its owner abort.
C16_Witness ==
  \E t \in LiveTickets :
    /\ tickets[t].checked_in
    /\ tickets[t].zk_proof_hash # <<>>
    /\ tickets[t].owner \in Principals \ {tickets[t].attendee}
    /\ Len(proofs) = 1
    /\ CheckInTx(tickets[t].owner, t).status = "EAlreadyCheckedIn"

\* C17: on a ticket that is not checked in, check_in succeeds when the
\* sender is the attendee and aborts with EUnauthorized for every other
\* sender, the owner of a ticket handed on included: checked_in stays
\* false, no CheckInProof, no event.  After a buy_ticket the buyer is the
\* attendee: check_in succeeds for the buyer and for nobody else, the
\* previous attendee included (a buy_ticket needs a listing, and no
\* list_for_sale returns).
C17_CheckInByHolderOnly ==
  /\ \A t \in LiveTickets, sender \in Principals :
       LET x == CheckInTx(sender, t)
       IN ~tickets[t].checked_in =>
            /\ sender = tickets[t].attendee =>
                 x.status = "ok" /\ x.tickets[t].checked_in
            /\ sender # tickets[t].attendee =>
                 /\ x.status = "EUnauthorized"
                 /\ x.tickets = tickets
                 /\ ~x.tickets[t].checked_in
                 /\ x.proofs = proofs
                 /\ x.events = <<>>
  /\ \A buyer \in Principals, l \in LiveListings, t \in LiveTickets :
       CanUse(buyer, tickets[t]) /\ ~tickets[t].checked_in =>
         \A payment \in 0..balance[buyer] :
           LET b == BuyTicketTx(buyer, l, t, payment)
           IN b.status = "ok" =>
                /\ b.tickets[t].attendee = buyer
                /\ \A s \in Principals :
                     check_in(b.tickets[t], s, epoch).status
                       = IF s = buyer THEN "ok" ELSE "EUnauthorized"
                /\ tickets[t].attendee # buyer =>
                     check_in(b.tickets[t], tickets[t].attendee,
                              epoch).status = "EUnauthorized"

\* C17 witness: a ticket, not checked in, that its attendee has handed on:
\* check_in by the owner aborts with EUnauthorized.
C17_Witness ==
  \E t \in LiveTickets :
    /\ ~tickets[t].checked_in
    /\ tickets[t].owner \in Principals \ {tickets[t].attendee}
    /\ tickets[t].zk_proof_hash # <<>>
    /\ CheckInTx(tickets[t].owner, t).status = "EUnauthorized"

\* C18: a successful check_in appends exactly one CheckInProof, owned by
\* the ticket's attendee and carrying the ticket's event_id, and leaves the
\* proofs there are as they were; a step never removes or changes a
\* CheckInProof, and adds one only as it sets checked_in on a ticket that
\* was not checked in; there are never more CheckInProofs than tickets ever
\* minted.
C18_OneProofPerCheckIn ==
  /\ [](\A t \in LiveTickets, sender \in Principals :
          LET x == CheckInTx(sender, t)
          IN x.status = "ok" =>
               /\ Len(x.proofs) = Len(proofs) + 1
               /\ SubSeq(x.proofs, 1, Len(proofs)) = proofs
               /\ x.proofs[Len(x.proofs)] =
                    [kind |-> "CheckInProof",
                     event_id |-> tickets[t].event_id,
                     attendee |-> tickets[t].attendee,
                     checked_in_at |-> epoch,
                     owner |-> tickets[t].attendee]
               /\ tickets[t].attendee = sender)
  /\ [](Len(proofs) <= Cardinality({t \in TicketIds : tickets[t] # NoObject}))
  /\ [][/\ Len(proofs') \in {Len(proofs), Len(proofs) + 1}
        /\ SubSeq(proofs', 1, Len(proofs)) = proofs
        /\ Len(proofs') = Len(proofs) + 1 =>
             \E t \in LiveTickets :
               /\ ~tickets[t].checked_in
               /\ tickets'[t].checked_in
               /\ proofs'[Len(proofs')].event_id = tickets[t].event_id
               /\ proofs'[Len(proofs')].owner = tickets[t].attendee
       ]_vars

\* C18 witness: the CheckInProof of a ticket that was handed on after its
\* check_in and burned by the new owner is still there.
C18_Witness ==
  \E t \in TicketIds :
    /\ tickets[t] = Deleted
    /\ Len(proofs) = 1
    /\ proofs[1].owner = proofs[1].attendee
    /\ proofs[1].event_id = <<69>>
    /\ epoch > proofs[1].checked_in_at

\* -------------------------------------------- claims on ticket_system, III
\* InvalidInput, for an empty proof, is EInvalidZKProof; proof_hash is
\* zk_proof_hash.

\* C23: burn_ticket succeeds on every ticket that exists, whatever its
\* checked_in, zk_proof_hash and owner, and reads no sender: the ticket is
\* deleted, nothing else changed, nothing emitted; and a deleted ticket
\* stays deleted, so no later transaction works on it.
C23_BurnUnconditional ==
  /\ [](\A t \in LiveTickets :
          LET x == BurnTicketTx(t)
          IN /\ burn_ticket(tickets[t]).status = "ok"
             /\ x.status = "ok"
             /\ x.tickets[t] = Deleted
             /\ ~IsLive(x.tickets[t])
             /\ \A k \in TicketIds \ {t} : x.tickets[k] = tickets[k]
             /\ x.listings = listings /\ x.proofs = proofs
             /\ x.balance = balance
             /\ x.events = <<>>)
  /\ [][\A t \in TicketIds :
          tickets[t] = Deleted => tickets'[t] = Deleted /\ t \notin LiveTickets'
       ]_vars

\* C23 witness: a ticket that was bought at mint and checked in is burned:
\* its CheckInProof is still there.
C23_Witness ==
  \E t \in TicketIds :
    /\ tickets[t] = Deleted
    /\ Len(proofs) = 1
    /\ balance[proofs[1].attendee] = 0

\* C24: verify_zk_proof with an empty proof aborts with EInvalidZKProof,
\* zk_proof_hash and all else unchanged; when it succeeds zk_proof_hash is
\* not empty; and no step makes a zk_proof_hash that is not empty empty
\* again on a ticket that exists after it.
C24_ProofOneWay ==
  /\ [](\A t \in LiveTickets :
          /\ LET x == VerifyZkProofTx(t, <<>>)
             IN /\ x.status = "EInvalidZKProof"
                /\ x.tickets = tickets
                /\ x.tickets[t].zk_proof_hash = tickets[t].zk_proof_hash
                /\ x.events = <<>>
          /\ \A zk_proof \in ProofVectors :
               LET x == VerifyZkProofTx(t, zk_proof)
               IN x.status = "ok" => x.tickets[t].zk_proof_hash # <<>>)
  /\ [][\A t \in LiveTickets :
          tickets[t].zk_proof_hash # <<>> /\ IsLive(tickets'[t])
            => tickets'[t].zk_proof_hash # <<>>
       ]_vars

\* C24 witness: a ticket whose proof was submitted and replaced, checked in
\* and handed on: the proof hash is kept.
C24_Witness ==
  \E t \in LiveTickets :
    /\ tickets[t].zk_proof_hash = <<70>>
    /\ tickets[t].checked_in
    /\ tickets[t].owner \in Principals \ {tickets[t].attendee}
    /\ Len(proofs) = 1

\* C29: both mint functions make the sender the attendee; check_in,
\* verify_zk_proof and list_for_sale leave the attendee as it was; on a
\* ticket that exists before and after a step is_soulbound, event_id and
\* ticket_number are the same, and the attendee is another only if the step
\* is a successful buy_ticket on that ticket (a transfer of the ticket
\* changes its owner and leaves the attendee).
C29_HolderChangesByBuyOnly ==
  /\ [](FreshId(tickets, TicketIds) # 0 =>
          \A sender \in Principals, event_id \in ByteVectors,
             ticket_number \in TicketNumbers, is_soulbound \in BOOLEAN,
             metadata_uri \in UriVectors :
            LET new == FreshId(tickets, TicketIds)
                m == MintTicketTx(sender, event_id, ticket_number,
                                  is_soulbound, metadata_uri)
            IN /\ m.status = "ok" => m.tickets[new].attendee = sender
               /\ \A price \in Prices, organizer \in Principals :
                    \A payment \in 0..balance[sender] :
                      LET b == BuyNewTicketTx(sender, event_id, ticket_number,
                                              is_soulbound, metadata_uri,
                                              payment, price, organizer)
                      IN b.status = "ok" => b.tickets[new].attendee = sender)
  /\ [](\A t \in LiveTickets, sender \in Principals :
          CanUse(sender, tickets[t]) =>
            /\ CheckInTx(sender, t).tickets[t].attendee = tickets[t].attendee
            /\ \A zk_proof \in ProofVectors :
                 VerifyZkProofTx(t, zk_proof).tickets[t].attendee
                   = tickets[t].attendee
            /\ \A price \in Prices :
                 ListForSaleTx(t, price).tickets[t].attendee
                   = tickets[t].attendee)
  /\ [][\A t \in LiveTickets :
          IsLive(tickets'[t]) =>
            /\ tickets'[t].is_soulbound = tickets[t].is_soulbound
            /\ tickets'[t].event_id = tickets[t].event_id
            /\ tickets'[t].ticket_number = tickets[t].ticket_number
            /\ tickets'[t].attendee # tickets[t].attendee =>
                 \E buyer \in Principals, l \in LiveListings :
                   \E payment \in 0..balance[buyer] :
                     LET x == BuyTicketTx(buyer, l, t, payment)
                     IN /\ x.status = "ok"
                        /\ tickets' = x.tickets
                        /\ listings' = x.listings
                        /\ balance' = x.balance
                        /\ tickets'[t].attendee = buyer
       ]_vars

\* C29 witness: a ticket bought at mint and handed on, with a proof
\* submitted by the new owner and not checked in: the attendee is still
\* the principal who minted it.
C29_Witness ==
  \E t \in LiveTickets :
    /\ ~tickets[t].is_soulbound
    /\ tickets[t].owner \in Principals \ {tickets[t].attendee}
    /\ tickets[t].zk_proof_hash # <<>>
    /\ ~tickets[t].checked_in
    /\ balance[tickets[t].attendee] = 0

\* --------------------------------------------- claims on ticket_system, IV
\* submit_proof is verify_zk_proof, mint_free is mint_ticket and mint_paid
\* is buy_new_ticket; proof_hash is zk_proof_hash.

\* C32 (as claimed): verify_zk_proof with a proof that is not empty
\* returns, whatever zk_proof_hash is, sets zk_proof_hash to the proof and
\* changes nothing else; called twice with the same proof it leaves what
\* one call leaves.
C32_ProofOverwrite ==
  \A t \in LiveTickets, zk_proof \in ProofVectors :
    Len(zk_proof) > 0 =>
      LET r == verify_zk_proof(tickets[t], zk_proof)
          x == VerifyZkProofTx(t, zk_proof)
      IN /\ r.status = "ok"
         /\ r.obj = [tickets[t] EXCEPT !.zk_proof_hash = zk_proof]
         /\ r.events = <<>>
         /\ verify_zk_proof(r.obj, zk_proof).status = "ok"
         /\ verify_zk_proof(r.obj, zk_proof).obj = r.obj
         /\ x.tickets = [tickets EXCEPT ![t] = r.obj]
         /\ x.listings = listings /\ x.proofs = proofs
         /\ x.balance = balance

\* The fields of a ticket as minted for the sender.
AsMinted(ticket, event_id, ticket_number, is_soulbound, metadata_uri, sender) ==
  /\ ticket.kind = "EventTicket"
  /\ ticket.event_id = event_id
  /\ ticket.ticket_number = ticket_number
  /\ ticket.attendee = sender
  /\ ticket.owner = sender
  /\ ticket.is_soulbound = is_soulbound
  /\ ticket.checked_in = FALSE
  /\ ticket.zk_proof_hash = <<>>
  /\ ticket.metadata_uri = metadata_uri
  /\ ticket.minted_at = epoch

\* The events of a mint: one TicketMinted with the fields of the ticket.
MintEvent(events, event_id, ticket_number, is_soulbound, sender) ==
  events = <<[type |-> "TicketMinted", event_id |-> event_id,
              ticket_number |-> ticket_number, attendee |-> sender,
              is_soulbound |-> is_soulbound]>>

\* C33 (as claimed): mint_ticket returns for every sender, event id, ticket
\* number, soulbound flag and metadata uri; the ticket it creates, and the
\* ticket a buy_new_ticket that returns creates, is not checked in, has an empty zk_proof_hash, is held and owned by the
\* sender and is soulbound as requested; one TicketMinted is emitted, with
\* event_id, ticket_number, attendee and is_soulbound of the ticket; no
\* other ticket changes.
C33_MintInitialFields ==
  FreshId(tickets, TicketIds) # 0 =>
    \A sender \in Principals, event_id \in ByteVectors,
       ticket_number \in TicketNumbers, is_soulbound \in BOOLEAN,
       metadata_uri \in UriVectors :
      LET new == FreshId(tickets, TicketIds)
          x == MintTicketTx(sender, event_id, ticket_number, is_soulbound,
                            metadata_uri)
      IN /\ x.status = "ok"
         /\ AsMinted(x.tickets[new], event_id, ticket_number,
                     is_soulbound, metadata_uri, sender)
         /\ MintEvent(x.events, event_id, ticket_number, is_soulbound,
                      sender)
         /\ \A t \in TicketIds \ {new} : x.tickets[t] = tickets[t]
         /\ x.listings = listings /\ x.proofs = proofs
         /\ x.balance = balance
         /\ \A price \in Prices, organizer \in Principals :
              \A payment \in 0..balance[sender] :
                LET y == BuyNewTicketTx(sender, event_id, ticket_number,
                                        is_soulbound, metadata_uri, payment,
                                        price, organizer)
                IN y.status = "ok" =>
                     /\ AsMinted(y.tickets[new], event_id, ticket_number,
                                 is_soulbound, metadata_uri, sender)
                     /\ MintEvent(y.events, event_id, ticket_number,
                                  is_soulbound, sender)
                     /\ \A t \in TicketIds \ {new} :
                          y.tickets[t] = tickets[t]

\* The SUI of all principals together.
TotalBalance(bal) == bal["alice"] + bal["bob"] + bal["carol"]

\* A transaction with effects x moves `payment` from payer to payee when it
\* returns, and nothing when it aborts.
Pays(x, payer, payee, payment) ==
  /\ TotalBalance(x.balance) = TotalBalance(balance)
  /\ x.status # "ok" => x.balance = balance
  /\ x.status = "ok" =>
       /\ \A a \in Principals \ {payer, payee} : x.balance[a] = balance[a]
       /\ payer = payee => x.balance = balance
       /\ payer # payee =>
            /\ x.balance[payer] = balance[payer] - payment
            /\ x.balance[payee] = balance[payee] + payment

\* C39: no step changes the sum of the balances; a buy_new_ticket or
\* buy_ticket that returns moves the payment from the sender to the
\* organizer passed or to the seller of the listing; one that aborts moves
\* nothing; mint_ticket, verify_zk_proof, check_in, list_for_sale and
\* burn_ticket change no balance.  (No listing exists, so the payments
\* made are those of buy_new_ticket.)
C39_FundsConserved ==
  /\ [](/\ \A a \in Principals : balance[a] >= 0
        /\ FreshId(tickets, TicketIds) # 0 =>
             \A sender \in Principals, event_id \in ByteVectors,
                ticket_number \in TicketNumbers, is_soulbound \in BOOLEAN,
                metadata_uri \in UriVectors :
               /\ MintTicketTx(sender, event_id, ticket_number, is_soulbound,
                               metadata_uri).balance = balance
               /\ \A price \in Prices, organizer \in Principals :
                    \A payment \in 0..balance[sender] :
                      Pays(BuyNewTicketTx(sender, event_id, ticket_number,
                                          is_soulbound, metadata_uri, payment,
                                          price, organizer),
                           sender, organizer, payment)
        /\ \A sender \in Principals, t \in LiveTickets :
             CanUse(sender, tickets[t]) =>
               /\ CheckInTx(sender, t).balance = balance
               /\ BurnTicketTx(t).balance = balance
               /\ \A zk_proof \in ProofVectors :
                    VerifyZkProofTx(t, zk_proof).balance = balance
               /\ \A price \in Prices :
                    ListForSaleTx(t, price).balance = balance
               /\ \A l \in LiveListings :
                    \A payment \in 0..balance[sender] :
                      Pays(BuyTicketTx(sender, l, t, payment),
                           sender, listings[l].seller, payment))
  /\ [][/\ TotalBalance(balance') = TotalBalance(balance)
        /\ balance' # balance =>
             \E payer \in Principals, payee \in Principals :
               /\ balance'[payer] < balance[payer]
               /\ balance'[payee] - balance[payee]
                    = balance[payer] - balance'[payer]
               /\ \A a \in Principals \ {payer, payee} :
                    balance'[a] = balance[a]
               /\ \/ \E t \in TicketIds :
                       /\ tickets[t] = NoObject /\ IsLive(tickets'[t])
                       /\ tickets'[t].attendee = payer
                  \/ \E l \in LiveListings :
                       listings'[l] = Deleted /\ listings[l].seller = payee
       ]_vars

\* C39 witness: a ticket was bought at mint, checked in and given a proof:
\* the attendee has paid, the payee holds the payment, the third principal
\* has what it had.
C39_Witness ==
  \E payee \in Principals, t \in LiveTickets :
    /\ balance[payee] = InitialBalances[payee] + 1
    /\ tickets[t].attendee # payee
    /\ balance[tickets[t].attendee] = 0
    /\ TotalBalance(balance) = TotalBalance(InitialBalances)
    /\ tickets[t].checked_in
    /\ tickets[t].zk_proof_hash = <<69>>

\* ------------------------------------------------- claims on event_anchor
\* The claims speak of an EventAnchor and of anchor_event and update_event
\* of the module event_anchor; "rejected" is an abort.

\* The arguments update_event and anchor_event accept.
ValidAnchorArgs(event_hash, blob_id) ==
  Len(event_hash) = HashLength /\ Len(blob_id) > 0

\* C35: update_event returns only when the sender is the organizer of the
\* anchor, the new hash has 64 bytes and the new blob id is not empty; a
\* call that does not return leaves the anchor as it was and emits nothing;
\* anchor_event returns only when the hash has 64 bytes and the blob id is
\* not empty, and makes the sender the organizer; no step changes organizer
\* or event_id of an anchor, and a step that changes event_hash or blob_id
\* is an update_event by the organizer, who owns the anchor, with arguments
\* that are accepted; no step changes a frozen anchor.
C35_AnchorUpdateGuarded ==
  /\ [](/\ \A n \in LiveAnchors, sender \in Principals,
            new_event_hash \in HashVectors, new_blob_id \in BlobVectors :
           LET r == update_event(anchors[n], new_event_hash, new_blob_id,
                                 sender, epoch)
           IN /\ r.status = "ok" =>
                   /\ sender = anchors[n].organizer
                   /\ ValidAnchorArgs(new_event_hash, new_blob_id)
                   /\ r.obj.event_hash = new_event_hash
                   /\ r.obj.blob_id = new_blob_id
              /\ r.status # "ok" => r.obj = anchors[n] /\ r.events = <<>>
        /\ FreshId(anchors, AnchorIds) # 0 =>
            \A sender \in Principals, event_id \in ByteVectors,
               event_hash \in HashVectors, blob_id \in BlobVectors :
             LET r == anchor_event(event_id, event_hash, blob_id, sender,
                                   epoch)
             IN IF r.status = "ok"
                  THEN /\ ValidAnchorArgs(event_hash, blob_id)
                       /\ r.obj.organizer = sender
                       /\ r.obj.event_id = event_id
                  ELSE r.obj = NoObject /\ r.events = <<>>)
  /\ [][\A n \in LiveAnchors :
          /\ anchors'[n].organizer = anchors[n].organizer
          /\ anchors'[n].event_id = anchors[n].event_id
          /\ anchors'[n].created_at = anchors[n].created_at
          /\ anchors[n].owner = Frozen => anchors'[n] = anchors[n]
          /\ (anchors'[n].event_hash # anchors[n].event_hash
                \/ anchors'[n].blob_id # anchors[n].blob_id)
             => /\ anchors[n].owner = anchors[n].organizer
                /\ ValidAnchorArgs(anchors'[n].event_hash,
                                   anchors'[n].blob_id)
                /\ anchors'[n] =
                     update_event(anchors[n], anchors'[n].event_hash,
                                  anchors'[n].blob_id, anchors[n].organizer,
                                  epoch).obj
       ]_vars

\* C35 witness: an anchor that its organizer has handed to another
\* principal, whose update_event is rejected whatever the arguments, beside
\* an anchor of the same event made in an earlier epoch, with another
\* hash, that its organizer holds and can update.
C35_Witness ==
  \E n \in LiveAnchors, m \in LiveAnchors :
    /\ anchors[n].owner \in Principals \ {anchors[n].organizer}
    /\ \A h \in HashVectors, b \in BlobVectors :
         update_event(anchors[n], h, b, anchors[n].owner, epoch).status
           = "EUnauthorized"
    /\ anchors[m].owner = anchors[m].organizer
    /\ anchors[m].event_id = anchors[n].event_id
    /\ anchors[m].created_at < epoch
    /\ anchors[m].event_hash # anchors[n].event_hash
    /\ \E h \in HashVectors, b \in BlobVectors :
         LET r == update_event(anchors[m], h, b, anchors[m].organizer, epoch)
         IN r.status = "ok" /\ r.obj # anchors[m]

====
